---- MODULE Spec2Model ----
(***************************************************************************)
(* School_Tennis backend: the session-authenticated REST API.              *)
(*                                                                         *)
(* The state is the relational store (users, roles, ...), the server-side  *)
(* session store, the cookie each client holds, and the last HTTP response *)
(* the server sent.  One action per route handler; every action runs the   *)
(* session middleware (express-session, passport.session) first, as        *)
(* server.js mounts it in front of every route.                            *)
(*                                                                         *)
(* Values: SQL NULL / a JSON field that is missing is "" for text, 0 for   *)
(* an integer and << >> for the password hash; these are exactly the       *)
(* values JavaScript's `!x` tests treat as missing.                        *)
(*                                                                         *)
(* passport-setup.js registers its two strategies on the identifier        *)
(* `pasport`; the model reads it as the `passport` singleton required on   *)
(* line 1 of that file, i.e. both strategies are registered.               *)
(***************************************************************************)
EXTENDS Integers, Sequences, FiniteSets, TLC

(***************************************************************************)
(* Bounds of the model.                                                    *)
(***************************************************************************)
\* Highest value users_id_seq may hand out (every INSERT attempt takes one).
MaxUserId == 2

\* Highest id the sequence of a resource table may hand out.
MaxRowId == 2
MaxPlayerId == 1

\* Highest value roles_id_seq may hand out (the seed takes 1 to 4).
MaxRoleId == 5

\* Clients (cookie jars), and the opaque session ids the store may hand out.
Agents == {"a1", "a2"}
AgentNo(a) == IF a = "a1" THEN 0 ELSE 1

\* Request inputs.  "" and 0 are a missing field.
Emails == {"a@x.com", "b@x.com"}
EmailIn == Emails \cup {""}
LoginPasswordIn == {"", "secret1", "hunter22"}
GoogleIds == {"g1", "g2"}

\* Profiles Google may return: [id, email, displayName].
GoogleProfile(gid, email, name) == [id |-> gid, email |-> email, name |-> name]
GoogleProfiles ==
    {GoogleProfile("g1", "a@x.com", "G"), GoogleProfile("g2", "a@x.com", "G"),
     GoogleProfile("g1", "", "G"), GoogleProfile("g1", "b@x.com", "")}

\* Bodies of POST /api/auth/register: the well-formed ones, and one body for
\* each way a body can be rejected.
RegisterBody(email, name, password, role_id) ==
    [email |-> email, name |-> name, password |-> password, role_id |-> role_id]
WellFormedBodies(passwords) ==
    {RegisterBody(e, "A", p, 3) : e \in Emails, p \in passwords}
RejectedBodies ==
    {RegisterBody("", "A", "secret1", 3), RegisterBody("a@x.com", "", "secret1", 3),
     RegisterBody("a@x.com", "A", "", 3), RegisterBody("a@x.com", "A", "secret1", 0),
     RegisterBody("a@x.com", "A", "12345", 3), RegisterBody("", "A", "12345", 3),
     RegisterBody("a@x.com", "A", "secret1", 9), RegisterBody("b@x.com", "A", "hunter22", 9)}
RegisterBodies(passwords) == WellFormedBodies(passwords) \cup RejectedBodies

\* Bodies of concurrent registrations: two passwords for each email, a
\* short password, a role that does not exist.
RaceBodies ==
    WellFormedBodies({"secret1", "hunter22"}) \cup
        {RegisterBody("a@x.com", "A", "12345", 3), RegisterBody("a@x.com", "B", "secret1", 9)}

VARIABLES
    users,      \* table users: id -> [email, name, password, google_id, role_id]
    userSeq,    \* users_id_seq: the id the next INSERT INTO users takes
    roles,      \* table roles: id -> name
    sessions,   \* session store: sid -> user id held in session.passport.user (0: none)
    cookie,     \* the connect.sid cookie each client holds (0: none)
    regs,       \* history: the registrations that returned 201
    inflight,   \* per client: the register request the server is handling
    teams,      \* table teams: id -> [name, coach_id]
    players,    \* table players: id -> [user_id, team_id, is_captain]
    seasons,    \* table seasons: id -> [name, start_date, end_date]
    meets,      \* table meets: id -> [season_id, meet_date, team1_id, team2_id, meet_format_id]
    matches,    \* table matches: id -> [meet_id, line_number, line_type, team1_player1_id, winner_code]
    sets,       \* table sets: id -> [match_id, set_number, team1_games_won, team2_games_won]
    seqs,       \* the id sequences of these tables and of roles: table name -> next id
    last        \* the last HTTP response sent

\* The tables behind the resource routes.
data == <<teams, players, seasons, meets, matches, sets, seqs>>

vars == <<users, userSeq, roles, sessions, cookie, regs, inflight, data, last>>

(***************************************************************************)
(* Messages.  A message is a sequence of fragments, cut so that the        *)
(* substrings the routes test with String.includes are fragments.          *)
(***************************************************************************)
Includes(msg, fragment) == \E i \in DOMAIN msg : msg[i] = fragment

MsgNone == << >>
MsgRegisterMissing == <<"Missing required fields", ": email, name, password, role_id">>
MsgPasswordShort == <<"Password must be at least 6 characters long.">>
MsgEmailExists(email) == <<"User with email '", email, "' ", "already exists", ".">>
MsgGoogleIdExists(gid) == <<"User with Google ID '", gid, "' ", "already exists", ".">>
MsgUniqueness == <<"User uniqueness constraint violated.">>
MsgRoleMissing(role_id) == <<"Role with ID", " ", ToString(role_id), " ", "does not exist", ".">>
MsgDatabaseError == <<"Database error creating user.">>
MsgIncorrect == <<"Incorrect email or password.">>
MsgOriginalMethod == <<"Please log in using your original method", " (e.g., Google).">>
MsgMissingCredentials == <<"Missing credentials">>
MsgNotLoggedIn == <<"Not logged in">>
MsgLoggedOut == <<"Logged out successfully">>
MsgNotAuthenticated == <<"Not authenticated">>
MsgSomethingBroke == <<"Something broke!">>
MsgRedirectHome == <<"Location: ", "/">>
MsgRedirectLogin == <<"Location: ", "/login">>

(***************************************************************************)
(* bcryptjs.  A digest carries its salt; compare re-hashes the candidate   *)
(* with the digest's salt.                                                 *)
(***************************************************************************)
NoPassword == << >>
bcryptHash(password, salt) == <<salt, password>>
\* bcrypt.compare with its two arguments exchanged.
bcryptCompareSwapped(password, digest) == digest = bcryptHash(digest[1], password)
bcryptCompare(password, digest) == digest = bcryptHash(password, digest[1])

(***************************************************************************)
(* The users table and its constraints (schema.sql, users).                *)
(***************************************************************************)
UserIdsByEmail(email) == {u \in DOMAIN users : users[u].email = email}
\* A lookup by Google id that finds nobody.
UserIdsByGoogleIdNone(gid) == {}
UserIdsByGoogleId(gid) == {u \in DOMAIN users : users[u].google_id = gid}

\* INSERT INTO users: the SQLSTATE and constraint PostgreSQL answers with.
\* Unique indexes are checked when the row is inserted, the foreign key at
\* the end of the statement.
InsertUserError(row) ==
    IF row.google_id # "" /\ UserIdsByGoogleId(row.google_id) # {}
    THEN [code |-> "23505", constraint |-> "users_google_id_key"]
    ELSE IF UserIdsByEmail(row.email) # {}
    THEN [code |-> "23505", constraint |-> "users_email_key"]
    ELSE IF row.role_id \notin DOMAIN roles
    THEN [code |-> "23503", constraint |-> "users_role_id_fkey"]
    ELSE [code |-> "", constraint |-> ""]

InsertedUsers(row) == (userSeq :> row) @@ users

(***************************************************************************)
(* What a route sends back about a user.                                   *)
(***************************************************************************)
UserBody(id, row, role_name, password) ==
    [id |-> id, email |-> row.email, name |-> row.name, role_id |-> row.role_id,
     google_id |-> row.google_id, role_name |-> role_name, password |-> password]

Response(op, agent, status, msg, body) ==
    [op |-> op, agent |-> agent, status |-> status, msg |-> msg, body |-> body]

(***************************************************************************)
(* Session middleware: express-session loads the record the cookie names,  *)
(* passport.session deserializes the user id it holds.                     *)
(***************************************************************************)
SessionLoaded(a) == cookie[a] \in DOMAIN sessions
SessionUser(a) == IF SessionLoaded(a) THEN sessions[cookie[a]] ELSE 0

\* A principal that keeps the email its user registered with.
deserializeUserCached(id) ==
    IF id \in DOMAIN users /\ users[id].role_id \in DOMAIN roles
    THEN LET row == IF \E r \in regs : r.id = id
                    THEN [users[id] EXCEPT !.email = (CHOOSE r \in regs : r.id = id).email]
                    ELSE users[id]
         IN {UserBody(id, row, roles[row.role_id], NoPassword)}
    ELSE {}

\* deserializeUser: SELECT ... FROM users u JOIN roles r ... WHERE u.id = $1
deserializeUser(id) ==
    IF id \in DOMAIN users /\ users[id].role_id \in DOMAIN roles
    THEN {UserBody(id, users[id], roles[users[id].role_id], NoPassword)}
    ELSE {}

\* req.user: the principal of a request of client a ({} when there is none).
ReqUser(a) == IF SessionUser(a) = 0 THEN {} ELSE deserializeUser(SessionUser(a))

\* A request counts as authenticated as soon as its session holds a user id.
isAuthenticatedBySession(a) == SessionUser(a) # 0

isAuthenticated(a) == ReqUser(a) # {}

\* The store after passport.session ran: a user id that no longer
\* deserializes is deleted from the session, which is then saved.
SessionsAfterDeserialize(a) ==
    IF SessionUser(a) # 0 /\ deserializeUser(SessionUser(a)) = {}
    THEN [sessions EXCEPT ![cookie[a]] = 0]
    ELSE sessions

\* A session id generator that hands every client the same id.
FreshSidShared(a) == 1

\* A new session id: one the store does not hold and no client presents.
\* Ids are opaque and unguessable, so the ids handed to one client are never
\* those of another: client number n gets 2n+1 and 2n+2 in turn.
FreshSid(a) ==
    LET first == 2 * AgentNo(a) + 1 IN
    IF cookie[a] = first THEN first + 1 ELSE first

\* A regeneration that also empties every other session of the same user.
RegeneratedEverywhere(a, user) ==
    (FreshSid(a) :> user) @@
        [s \in DOMAIN sessions \ {cookie[a]} |->
            IF sessions[s] = SessionUser(a) THEN 0 ELSE sessions[s]]

\* session.regenerate: the record of the request's session is destroyed and
\* a new session, holding `user`, is saved under a new id.
Regenerated(a, user) ==
    (FreshSid(a) :> user) @@
        [s \in DOMAIN sessions \ {cookie[a]} |-> sessions[s]]

\* A req.login that regenerates the session and stores no user in it.
LoginSessionCookieOnly(a, id) ==
    /\ sessions' = Regenerated(a, 0)
    /\ cookie' = [cookie EXCEPT ![a] = FreshSid(a)]

\* req.login(user): passport's session manager regenerates the session and
\* stores serializeUser(user) = user.id in it; the response sets the cookie.
LoginSession(a, id) ==
    /\ sessions' = Regenerated(a, id)
    /\ cookie' = [cookie EXCEPT ![a] = FreshSid(a)]

\* A logout that leaves the session as it is.
LogoutSessionKept(a) == UNCHANGED <<sessions, cookie>>

\* req.logout: passport's session manager removes the user from the session
\* and regenerates it; the new, empty session is saved and its cookie set.
LogoutSession(a) ==
    /\ sessions' = Regenerated(a, 0)
    /\ cookie' = [cookie EXCEPT ![a] = FreshSid(a)]

\* A request that does not touch its session.
KeepSession(a) ==
    /\ sessions' = SessionsAfterDeserialize(a)
    /\ cookie' = cookie

(***************************************************************************)
(* userService.createUser                                                  *)
(***************************************************************************)
CreateUserRow(email, name, role_id, password, google_id, salt) ==
    [email |-> email, name |-> name,
     password |-> IF password # "" THEN bcryptHash(password, salt) ELSE NoPassword,
     google_id |-> google_id, role_id |-> role_id]

\* The message of the Error createUser throws ("" code: no error).
CreateUserErrorMessage(row) ==
    LET err == InsertUserError(row) IN
    IF err.code = "23505"
    THEN IF err.constraint = "users_email_key" THEN MsgEmailExists(row.email)
         ELSE IF err.constraint = "users_google_id_key" THEN MsgGoogleIdExists(row.google_id)
         ELSE MsgUniqueness
    ELSE IF err.code = "23503" THEN MsgRoleMissing(row.role_id)
    ELSE MsgDatabaseError

(***************************************************************************)
(* POST /api/auth/register                                                 *)
(***************************************************************************)
\* The length test off by one: a password of 5 characters passes.
RegisterInvalidMessageOffByOne(email, name, password, role_id) ==
    IF email = "" \/ name = "" \/ password = "" \/ role_id = 0
    THEN MsgRegisterMissing
    ELSE IF Len(password) < 5 THEN MsgPasswordShort
    ELSE MsgNone

RegisterInvalidMessage(email, name, password, role_id) ==
    IF email = "" \/ name = "" \/ password = "" \/ role_id = 0
    THEN MsgRegisterMissing
    ELSE IF Len(password) < 6 THEN MsgPasswordShort
    ELSE MsgNone

RegisterErrorStatus(msg) ==
    IF Includes(msg, "already exists") \/ Includes(msg, "Role with ID") THEN 409 ELSE 500

Register(a, body, salts) ==
    LET invalid == RegisterInvalidMessage(body.email, body.name, body.password, body.role_id) IN
    IF invalid # MsgNone
    THEN /\ last' = Response("register", a, 400, invalid, {})
         /\ KeepSession(a)
         /\ UNCHANGED <<users, userSeq, roles, regs, inflight, data>>
    ELSE /\ userSeq <= MaxUserId
         /\ userSeq' = userSeq + 1
         /\ \E salt \in salts :
              LET row == CreateUserRow(body.email, body.name, body.role_id,
                                       body.password, "", salt)
              IN
              IF InsertUserError(row).code = ""
              THEN /\ users' = InsertedUsers(row)
                   /\ LoginSession(a, userSeq)
                   /\ regs' = regs \cup {[email |-> body.email,
                                           password |-> body.password, id |-> userSeq]}
                   /\ last' = Response("register", a, 201, MsgNone,
                                       {UserBody(userSeq, row, "", NoPassword)})
              ELSE /\ last' = Response("register", a,
                                       RegisterErrorStatus(CreateUserErrorMessage(row)),
                                       CreateUserErrorMessage(row), {})
                   /\ KeepSession(a)
                   /\ UNCHANGED <<users, regs>>
         /\ UNCHANGED <<roles, inflight, data>>

(***************************************************************************)
(* POST /api/auth/register step by step.  The handler is asynchronous: it  *)
(* validates and hashes, awaits the INSERT, then awaits req.login and      *)
(* answers; the steps of two requests interleave at every await.           *)
(***************************************************************************)
Request(pc, body, row, seen, id, status, error) ==
    [pc |-> pc, body |-> body, row |-> row, seen |-> seen, id |-> id,
     status |-> status, error |-> error]

NoRequest ==
    Request("idle", RegisterBody("", "", "", 0),
            CreateUserRow("", "", 0, "", "", ""), 0, 0, 0, MsgNone)

\* The request arrives: session middleware, validation, and in createUser
\* the salt and the hash.  `seen` records the sequence value at arrival.
RegisterReceive(a, body, salts) ==
    LET invalid == RegisterInvalidMessage(body.email, body.name, body.password, body.role_id)
        blank == NoRequest.row
    IN
    /\ inflight[a].pc \in {"idle", "done"}
    /\ IF invalid # MsgNone
       THEN /\ inflight' = [inflight EXCEPT ![a] =
                                Request("done", body, blank, userSeq, 0, 400, invalid)]
            /\ last' = Response("register", a, 400, invalid, {})
       ELSE /\ \E salt \in salts :
                 inflight' = [inflight EXCEPT ![a] =
                     Request("insert", body,
                             CreateUserRow(body.email, body.name, body.role_id,
                                           body.password, "", salt),
                             userSeq, 0, 0, MsgNone)]
            /\ UNCHANGED last
    /\ KeepSession(a)
    /\ UNCHANGED <<users, userSeq, roles, regs, data>>

\* A 23505 that is not translated: every database error reads the same.
InsertOutcomeUntranslated(row) ==
    IF InsertUserError(row).code = "" THEN MsgNone ELSE MsgDatabaseError

\* createUser's INSERT statement and its catch: the message of the Error it
\* throws, MsgNone when the row went in.
InsertOutcome(row) ==
    IF InsertUserError(row).code = "" THEN MsgNone ELSE CreateUserErrorMessage(row)

\* The database executes the INSERT of request a: one atomic statement.
RegisterInsert(a) ==
    LET req == inflight[a] IN
    /\ req.pc = "insert"
    /\ userSeq <= MaxUserId
    /\ userSeq' = userSeq + 1
    /\ IF InsertOutcome(req.row) = MsgNone
       THEN /\ users' = InsertedUsers(req.row)
            /\ inflight' = [inflight EXCEPT ![a].pc = "respond", ![a].id = userSeq]
       ELSE /\ inflight' = [inflight EXCEPT ![a].pc = "respond",
                                            ![a].error = InsertOutcome(req.row)]
            /\ UNCHANGED users
    /\ UNCHANGED <<roles, sessions, cookie, regs, data, last>>

\* createUser returned or threw: req.login and 201, or the catch's 409/500.
RegisterRespond(a) ==
    LET req == inflight[a] IN
    /\ req.pc = "respond"
    /\ IF req.id # 0
       THEN /\ LoginSession(a, req.id)
            /\ regs' = regs \cup {[email |-> req.body.email,
                                    password |-> req.body.password, id |-> req.id]}
            /\ last' = Response("register", a, 201, MsgNone,
                                {UserBody(req.id, req.row, "", NoPassword)})
            /\ inflight' = [inflight EXCEPT ![a].pc = "done", ![a].status = 201]
       ELSE /\ last' = Response("register", a, RegisterErrorStatus(req.error),
                                req.error, {})
            /\ inflight' = [inflight EXCEPT ![a].pc = "done",
                                            ![a].status = RegisterErrorStatus(req.error)]
            /\ UNCHANGED <<sessions, cookie, regs>>
    /\ UNCHANGED <<users, userSeq, roles, data>>

(***************************************************************************)
(* POST /api/auth/login: passport-local, then the LocalStrategy verify     *)
(* callback, then the route's custom callback.                             *)
(***************************************************************************)
\* A verify callback without the branch for accounts that have no password.
LocalVerifyNoBranch(email, password) ==
    LET ids == UserIdsByEmail(email)
        id == CHOOSE u \in ids : TRUE
    IN
    IF ids = {} THEN [user |-> {}, msg |-> MsgIncorrect]
    ELSE IF users[id].password # NoPassword /\ bcryptCompare(password, users[id].password)
    THEN [user |-> {UserBody(id, users[id], "", NoPassword)}, msg |-> MsgNone]
    ELSE [user |-> {}, msg |-> MsgIncorrect]

\* The verify callback's outcome: the user (password removed) or a message.
LocalVerify(email, password) ==
    LET ids == UserIdsByEmail(email)
        id == CHOOSE u \in ids : TRUE
    IN
    IF ids = {} THEN [user |-> {}, msg |-> MsgIncorrect]
    ELSE IF users[id].password = NoPassword THEN [user |-> {}, msg |-> MsgOriginalMethod]
    ELSE IF bcryptCompare(password, users[id].password)
    THEN [user |-> {UserBody(id, users[id], "", NoPassword)}, msg |-> MsgNone]
    ELSE [user |-> {}, msg |-> MsgIncorrect]

\* An authentication that tells an unknown email from a wrong password.
LocalAuthenticateLeaky(email, password) ==
    IF email = "" \/ password = ""
    THEN [user |-> {}, msg |-> MsgMissingCredentials]
    ELSE IF UserIdsByEmail(email) = {}
    THEN [user |-> {}, msg |-> <<"No account with that email.">>]
    ELSE LocalVerify(email, password)

\* passport-local answers a request without email or password itself.
LocalAuthenticate(email, password) ==
    IF email = "" \/ password = ""
    THEN [user |-> {}, msg |-> MsgMissingCredentials]
    ELSE LocalVerify(email, password)

\* A login route that ends the session of the caller when verification fails.
LoginFailureLogsOut(a, email, password) ==
    LET result == LocalAuthenticate(email, password) IN
    /\ IF result.user = {}
       THEN /\ last' = Response("login", a, 401, result.msg, {})
            /\ LogoutSession(a)
       ELSE /\ last' = Response("login", a, 200, MsgNone, result.user)
            /\ LoginSession(a, (CHOOSE u \in result.user : TRUE).id)
    /\ UNCHANGED <<users, userSeq, roles, regs, inflight, data>>

Login(a, email, password) ==
    LET result == LocalAuthenticate(email, password) IN
    /\ IF result.user = {}
       THEN /\ last' = Response("login", a, 401, result.msg, {})
            /\ KeepSession(a)
       ELSE /\ last' = Response("login", a, 200, MsgNone, result.user)
            /\ LoginSession(a, (CHOOSE u \in result.user : TRUE).id)
    /\ UNCHANGED <<users, userSeq, roles, regs, inflight, data>>

(***************************************************************************)
(* POST /api/auth/logout, GET /api/auth/status                             *)
(***************************************************************************)
Logout(a) ==
    /\ IF ~isAuthenticated(a)
       THEN /\ last' = Response("logout", a, 401, MsgNotLoggedIn, {})
            /\ KeepSession(a)
       ELSE /\ last' = Response("logout", a, 200, MsgLoggedOut, {})
            /\ LogoutSession(a)
    /\ UNCHANGED <<users, userSeq, roles, regs, inflight, data>>

Status(a) ==
    /\ IF isAuthenticated(a)
       THEN last' = Response("status", a, 200, MsgNone, ReqUser(a))
       ELSE last' = Response("status", a, 401, MsgNotAuthenticated, {})
    /\ KeepSession(a)
    /\ UNCHANGED <<users, userSeq, roles, regs, inflight, data>>

(***************************************************************************)
(* GET /api/auth/google/callback: passport.authenticate('google') runs the *)
(* GoogleStrategy verify callback on the profile Google returned, logs the *)
(* resolved user in and the route redirects to "/".                        *)
(***************************************************************************)
\* A default role that falls back to 4.
DefaultRoleIdFallbackGuest ==
    LET ids == {r \in DOMAIN roles : roles[r] = "Player"} IN
    IF ids = {} THEN 4 ELSE CHOOSE r \in ids : TRUE

\* SELECT id FROM roles WHERE name = 'Player', falling back to 3.
DefaultRoleId ==
    LET ids == {r \in DOMAIN roles : roles[r] = "Player"} IN
    IF ids = {} THEN 3 ELSE CHOOSE r \in ids : TRUE

GoogleNewRow(gid, email, name) ==
    [email |-> email, name |-> name, password |-> NoPassword,
     google_id |-> gid, role_id |-> DefaultRoleId]

\* The session and the response once verify called done(null, user).
GoogleLoggedIn(a, id) ==
    /\ LoginSession(a, id)
    /\ last' = Response("google", a, 302, MsgRedirectHome, {})

\* A failed verification that still logs the caller in, as the oldest user.
GoogleErrorLoggedIn(a) ==
    IF DOMAIN users = {}
    THEN /\ last' = Response("google", a, 500, MsgSomethingBroke, {})
         /\ KeepSession(a)
    ELSE /\ last' = Response("google", a, 500, MsgSomethingBroke, {})
         /\ LoginSession(a, CHOOSE u \in DOMAIN users : \A v \in DOMAIN users : u <= v)

\* The response once verify called done(err): the error handler of server.js.
GoogleError(a) ==
    /\ KeepSession(a)
    /\ last' = Response("google", a, 500, MsgSomethingBroke, {})

GoogleCallback(a, gid, email, name) ==
    LET byGoogle == UserIdsByGoogleId(gid)
        byEmail == UserIdsByEmail(email)
    IN
    /\ IF email = ""
       THEN GoogleError(a) /\ UNCHANGED <<users, userSeq>>
       ELSE IF byGoogle # {}
       THEN GoogleLoggedIn(a, CHOOSE u \in byGoogle : TRUE) /\ UNCHANGED <<users, userSeq>>
       ELSE IF byEmail # {}
       THEN LET id == CHOOSE u \in byEmail : TRUE IN
            /\ users' = [users EXCEPT ![id].google_id = gid]
            /\ GoogleLoggedIn(a, id)
            /\ UNCHANGED userSeq
       ELSE /\ userSeq <= MaxUserId
            /\ userSeq' = userSeq + 1
            /\ IF name # "" /\ InsertUserError(GoogleNewRow(gid, email, name)).code = ""
               THEN /\ users' = InsertedUsers(GoogleNewRow(gid, email, name))
                    /\ GoogleLoggedIn(a, userSeq)
               ELSE GoogleError(a) /\ UNCHANGED users
    /\ UNCHANGED <<roles, regs, inflight, data>>

\* Google did not authenticate the user: failureRedirect.
GoogleDenied(a) ==
    /\ last' = Response("google", a, 302, MsgRedirectLogin, {})
    /\ KeepSession(a)
    /\ UNCHANGED <<users, userSeq, roles, regs, inflight, data>>

(***************************************************************************)
(* The session cookie's maxAge passes: the store drops the record; the     *)
(* client drops the cookie or goes on presenting it.                       *)
(***************************************************************************)
SessionExpire(a) ==
    /\ SessionLoaded(a)
    /\ sessions' = [s \in DOMAIN sessions \ {cookie[a]} |-> sessions[s]]
    /\ \E keeps \in BOOLEAN : cookie' = [cookie EXCEPT ![a] = IF keeps THEN @ ELSE 0]
    /\ last' = Response("expire", a, 0, MsgNone, {})
    /\ UNCHANGED <<users, userSeq, roles, regs, inflight, data>>

(***************************************************************************)
(* Resource routes: what they share.                                       *)
(***************************************************************************)
MsgUnauthorized == <<"Unauthorized: Access requires login">>

\* ensureAuthenticated: TRUE when it calls next(), FALSE when it answers 401.
ensureAuthenticated(a) == isAuthenticated(a)

\* req.params.id: a path segment, and parseInt(segment, 10).
PathIds == {"1", "2", "abc"}
Numerals == <<"1", "2", "3", "4", "5", "6">>
NaN == -1
parseInt(s) ==
    IF \E i \in DOMAIN Numerals : Numerals[i] = s
    THEN CHOOSE i \in DOMAIN Numerals : Numerals[i] = s
    ELSE NaN

\* A body field that the JSON does not carry, where the code tells it from
\* null (0) with `=== undefined`.
Undefined == -9

\* A table without the rows `ids`; a row as RETURNING * gives it.
Without(table, ids) == [i \in DOMAIN table \ ids |-> table[i]]
RowOut(id, row) == [id |-> id] @@ row

\* The response of a resource route.  The session middleware ran; no
\* resource route writes users or the session.
Answer(op, a, status, msg, body) ==
    /\ last' = Response(op, a, status, msg, body)
    /\ KeepSession(a)
    /\ UNCHANGED <<users, userSeq, regs, inflight>>

\* A response sent before any statement ran.
Refuse(op, a, status, msg) ==
    /\ Answer(op, a, status, msg, {})
    /\ UNCHANGED <<roles, data>>

\* Rows that go with a deleted row: ON DELETE CASCADE.
MeetsOfTeams(ids) ==
    {m \in DOMAIN meets : meets[m].team1_id \in ids \/ meets[m].team2_id \in ids}
MatchesOfMeets(ids) == {x \in DOMAIN matches : matches[x].meet_id \in ids}
SetsOfMatches(ids) == {s \in DOMAIN sets : sets[s].match_id \in ids}

(***************************************************************************)
(* ensureRole(requiredRoles): the middleware that comes with the schema.   *)
(* userRoles is req.user.roles, an array of role names or something else; *)
(* status 0 stands for next().                                             *)
(***************************************************************************)
RoleInfo(isArray, names) == [isArray |-> isArray, names |-> names]

\* ensureRole with its role checks ahead of the authentication check.
ensureRoleRolesFirst(requiredRoles, authenticated, userRoles) ==
    IF ~userRoles.isArray
    THEN [status |-> 403, msg |-> <<"Forbidden: Role information missing.">>]
    ELSE IF \E role \in requiredRoles : role \in userRoles.names
    THEN IF authenticated THEN [status |-> 0, msg |-> MsgNone]
         ELSE [status |-> 401, msg |-> <<"Authentication required.">>]
    ELSE [status |-> 403, msg |-> <<"Forbidden: Insufficient permissions.">>]

ensureRole(requiredRoles, authenticated, userRoles) ==
    IF ~authenticated
    THEN [status |-> 401, msg |-> <<"Authentication required.">>]
    ELSE IF ~userRoles.isArray
    THEN [status |-> 403, msg |-> <<"Forbidden: Role information missing.">>]
    ELSE IF \E role \in requiredRoles : role \in userRoles.names
    THEN [status |-> 0, msg |-> MsgNone]
    ELSE [status |-> 403, msg |-> <<"Forbidden: Insufficient permissions.">>]

(***************************************************************************)
(* /api/teams                                                              *)
(***************************************************************************)
TeamBody(name, coach_id) == [name |-> name, coach_id |-> coach_id]

\* POST /api/teams
CreateTeam(a, body) ==
    LET op == "POST /api/teams"
        id == seqs.teams
    IN
    IF ~ensureAuthenticated(a) THEN Refuse(op, a, 401, MsgUnauthorized)
    ELSE IF body.name = "" THEN Refuse(op, a, 400, <<"Missing required field: name">>)
    ELSE /\ id <= MaxRowId
         /\ seqs' = [seqs EXCEPT !.teams = id + 1]
         /\ IF body.coach_id # 0 /\ body.coach_id \notin DOMAIN users
            THEN /\ Answer(op, a, 500, <<"Error creating team">>, {})
                 /\ UNCHANGED teams
            ELSE /\ teams' = (id :> body) @@ teams
                 /\ Answer(op, a, 201, MsgNone, {RowOut(id, body)})
         /\ UNCHANGED <<roles, players, seasons, meets, matches, sets>>

\* updateTeam's UPDATE: the fields the body carries.
UpdatedTeam(row, body) ==
    [name |-> IF body.name = "" THEN row.name ELSE body.name,
     coach_id |-> IF body.coach_id = Undefined THEN row.coach_id ELSE body.coach_id]

\* PUT /api/teams/:id  (a name of "" stands for a body without name)
UpdateTeam(a, path, body) ==
    LET op == "PUT /api/teams/:id"
        id == parseInt(path)
    IN
    IF ~ensureAuthenticated(a) THEN Refuse(op, a, 401, MsgUnauthorized)
    ELSE IF id = NaN THEN Refuse(op, a, 400, <<"Invalid team ID format">>)
    ELSE IF body.name = "" /\ body.coach_id = Undefined
    THEN Refuse(op, a, 400, <<"No update fields provided (name or coach_id required)">>)
    ELSE IF id \notin DOMAIN teams THEN Refuse(op, a, 404, <<"Team not found">>)
    ELSE IF UpdatedTeam(teams[id], body).coach_id \notin DOMAIN users \cup {0}
    THEN Refuse(op, a, 500, <<"Error updating team">>)
    ELSE /\ teams' = [teams EXCEPT ![id] = UpdatedTeam(@, body)]
         /\ Answer(op, a, 200, MsgNone, {RowOut(id, UpdatedTeam(teams[id], body))})
         /\ UNCHANGED <<roles, players, seasons, meets, matches, sets, seqs>>

\* DELETE /api/teams/:id: the players of the team lose it, its meets go
\* with it, and with them their matches and sets.
DeleteTeam(a, path) ==
    LET op == "DELETE /api/teams/:id"
        id == parseInt(path)
        gone == MeetsOfTeams({id})
    IN
    IF ~ensureAuthenticated(a) THEN Refuse(op, a, 401, MsgUnauthorized)
    ELSE IF id = NaN THEN Refuse(op, a, 400, <<"Invalid team ID format">>)
    ELSE IF id \notin DOMAIN teams THEN Refuse(op, a, 404, <<"Team not found">>)
    ELSE /\ teams' = Without(teams, {id})
         /\ players' = [p \in DOMAIN players |->
                          IF players[p].team_id = id
                          THEN [players[p] EXCEPT !.team_id = 0] ELSE players[p]]
         /\ meets' = Without(meets, gone)
         /\ matches' = Without(matches, MatchesOfMeets(gone))
         /\ sets' = Without(sets, SetsOfMatches(MatchesOfMeets(gone)))
         /\ Answer(op, a, 200, MsgNone, {RowOut(id, teams[id])})
         /\ UNCHANGED <<roles, seasons, seqs>>

(***************************************************************************)
(* /api/players                                                            *)
(***************************************************************************)
PlayerBody(user_id, team_id, is_captain) ==
    [user_id |-> user_id, team_id |-> team_id, is_captain |-> is_captain]

PlayerIdsByUser(user_id) == {p \in DOMAIN players : players[p].user_id = user_id}

\* createPlayer: the row it inserts (is_captain defaults to false), and the
\* message of the Error the INSERT ends in (MsgNone: the row went in).
NewPlayerRow(body) ==
    PlayerBody(body.user_id, body.team_id,
               IF body.is_captain = "" THEN "false" ELSE body.is_captain)

CreatePlayerError(body) ==
    IF PlayerIdsByUser(body.user_id) # {}
    THEN <<"User with user_id ", ToString(body.user_id), " is ", "already a player", ".">>
    ELSE IF body.user_id \notin DOMAIN users
    THEN <<"User with user_id ", ToString(body.user_id), " ", "does not exist", ".">>
    ELSE IF body.team_id # 0 /\ body.team_id \notin DOMAIN teams
    THEN <<"Team with team_id ", ToString(body.team_id), " ", "does not exist", ".">>
    ELSE MsgNone

\* POST /api/players
CreatePlayer(a, body) ==
    LET op == "POST /api/players"
        id == seqs.players
    IN
    IF ~ensureAuthenticated(a) THEN Refuse(op, a, 401, MsgUnauthorized)
    ELSE IF body.user_id = 0 THEN Refuse(op, a, 400, <<"Missing required field", ": user_id">>)
    ELSE /\ id <= MaxPlayerId
         /\ seqs' = [seqs EXCEPT !.players = id + 1]
         /\ IF CreatePlayerError(body) # MsgNone
            THEN /\ Answer(op, a, 409, CreatePlayerError(body), {})
                 /\ UNCHANGED players
            ELSE /\ players' = (id :> NewPlayerRow(body)) @@ players
                 /\ Answer(op, a, 201, MsgNone, {RowOut(id, NewPlayerRow(body))})
         /\ UNCHANGED <<roles, teams, seasons, meets, matches, sets>>

\* updatePlayer's UPDATE: the fields the body carries.
UpdatedPlayer(row, body) ==
    [user_id |-> row.user_id,
     team_id |-> IF body.team_id = Undefined THEN row.team_id ELSE body.team_id,
     is_captain |-> IF body.is_captain = "" THEN row.is_captain ELSE body.is_captain]

\* PUT /api/players/:id
UpdatePlayer(a, path, body) ==
    LET op == "PUT /api/players/:id"
        id == parseInt(path)
    IN
    IF ~ensureAuthenticated(a) THEN Refuse(op, a, 401, MsgUnauthorized)
    ELSE IF id = NaN THEN Refuse(op, a, 400, <<"Invalid player ID format">>)
    ELSE IF body.team_id = Undefined /\ body.is_captain = ""
    THEN Refuse(op, a, 400, <<"No update fields provided (team_id or is_captain required)">>)
    ELSE IF id \notin DOMAIN players THEN Refuse(op, a, 404, <<"Player not found">>)
    ELSE IF UpdatedPlayer(players[id], body).team_id \notin DOMAIN teams \cup {0}
    THEN Refuse(op, a, 400, <<"Team with team_id ", ToString(body.team_id), " ",
                              "does not exist", ".">>)
    ELSE /\ players' = [players EXCEPT ![id] = UpdatedPlayer(@, body)]
         /\ Answer(op, a, 200, MsgNone, {RowOut(id, UpdatedPlayer(players[id], body))})
         /\ UNCHANGED <<roles, teams, seasons, meets, matches, sets, seqs>>

\* The role check of DELETE /api/players/:id turned into a blacklist.
MayDeletePlayersUnlessPlayer(principal) ==
    \E u \in principal : u.role_name \notin {"Player"}

\* The role check of DELETE /api/players/:id:
\* req.user && ['Admin', 'Coach'].includes(req.user.role_name)
MayDeletePlayers(principal) ==
    \E u \in principal : u.role_name \in {"Admin", "Coach"}

\* DELETE /api/players/:id: the matches the player is entered in lose them.
DeletePlayer(a, path) ==
    LET op == "DELETE /api/players/:id"
        id == parseInt(path)
    IN
    IF ~ensureAuthenticated(a) THEN Refuse(op, a, 401, MsgUnauthorized)
    ELSE IF ~MayDeletePlayers(ReqUser(a))
    THEN Refuse(op, a, 403, <<"Forbidden: Only Admins or Coaches can delete players.">>)
    ELSE IF id = NaN THEN Refuse(op, a, 400, <<"Invalid player ID format">>)
    ELSE IF id \notin DOMAIN players THEN Refuse(op, a, 404, <<"Player not found">>)
    ELSE /\ players' = Without(players, {id})
         /\ matches' = [x \in DOMAIN matches |->
                          IF matches[x].team1_player1_id = id
                          THEN [matches[x] EXCEPT !.team1_player1_id = 0] ELSE matches[x]]
         /\ Answer(op, a, 200, MsgNone, {RowOut(id, players[id])})
         /\ UNCHANGED <<roles, teams, seasons, meets, sets, seqs>>

(***************************************************************************)
(* /api/seasons.  A season is modelled by its name; the routes carry no    *)
(* gate.                                                                   *)
(***************************************************************************)
SeasonBody(name) == [name |-> name]

\* POST /api/seasons
CreateSeason(a, body) ==
    LET op == "POST /api/seasons"
        id == seqs.seasons
    IN
    IF body.name = "" THEN Refuse(op, a, 400, <<"Missing required field", ": name">>)
    ELSE /\ id <= MaxRowId
         /\ seqs' = [seqs EXCEPT !.seasons = id + 1]
         /\ seasons' = (id :> body) @@ seasons
         /\ Answer(op, a, 201, MsgNone, {RowOut(id, body)})
         /\ UNCHANGED <<roles, teams, players, meets, matches, sets>>

\* PUT /api/seasons/:id  (a name of "" stands for the body {})
UpdateSeason(a, path, body) ==
    LET op == "PUT /api/seasons/:id"
        id == parseInt(path)
    IN
    IF id = NaN THEN Refuse(op, a, 400, <<"Invalid season ID format">>)
    ELSE IF body.name = "" THEN Refuse(op, a, 400, <<"No update fields provided">>)
    ELSE IF id \notin DOMAIN seasons THEN Refuse(op, a, 404, <<"Season not found">>)
    ELSE /\ seasons' = [seasons EXCEPT ![id] = body]
         /\ Answer(op, a, 200, MsgNone, {RowOut(id, body)})
         /\ UNCHANGED <<roles, teams, players, meets, matches, sets, seqs>>

\* DELETE /api/seasons/:id: the meets of the season lose it.
DeleteSeason(a, path) ==
    LET op == "DELETE /api/seasons/:id"
        id == parseInt(path)
    IN
    IF id = NaN THEN Refuse(op, a, 400, <<"Invalid season ID format">>)
    ELSE IF id \notin DOMAIN seasons THEN Refuse(op, a, 404, <<"Season not found">>)
    ELSE /\ seasons' = Without(seasons, {id})
         /\ meets' = [m \in DOMAIN meets |->
                        IF meets[m].season_id = id
                        THEN [meets[m] EXCEPT !.season_id = 0] ELSE meets[m]]
         /\ Answer(op, a, 200, MsgNone, {RowOut(id, seasons[id])})
         /\ UNCHANGED <<roles, teams, players, matches, sets, seqs>>

(***************************************************************************)
(* /api/roles.  roles maps a role id to its name (UNIQUE NOT NULL).        *)
(***************************************************************************)
RoleIdsByName(name) == {r \in DOMAIN roles : roles[r] = name}
MsgRoleExists(name) == <<"Role with name '", name, "' ", "already exists", ".">>

\* POST /api/roles
CreateRole(a, name) ==
    LET op == "POST /api/roles"
        id == seqs.roles
    IN
    IF ~ensureAuthenticated(a) THEN Refuse(op, a, 401, MsgUnauthorized)
    ELSE IF name = "" THEN Refuse(op, a, 400, <<"Missing required field", ": name">>)
    ELSE /\ id <= MaxRoleId
         /\ seqs' = [seqs EXCEPT !.roles = id + 1]
         /\ IF RoleIdsByName(name) # {}
            THEN /\ Answer(op, a, 409, MsgRoleExists(name), {})
                 /\ UNCHANGED roles
            ELSE /\ roles' = (id :> name) @@ roles
                 /\ Answer(op, a, 201, MsgNone, {[id |-> id, name |-> name]})
         /\ UNCHANGED <<teams, players, seasons, meets, matches, sets>>

\* PUT /api/roles/:id
UpdateRole(a, path, name) ==
    LET op == "PUT /api/roles/:id"
        id == parseInt(path)
    IN
    IF ~ensureAuthenticated(a) THEN Refuse(op, a, 401, MsgUnauthorized)
    ELSE IF id = NaN THEN Refuse(op, a, 400, <<"Invalid role ID format">>)
    ELSE IF name = "" THEN Refuse(op, a, 400, <<"Missing required field for update: name">>)
    ELSE IF id \notin DOMAIN roles THEN Refuse(op, a, 404, <<"Role not found">>)
    ELSE IF RoleIdsByName(name) \ {id} # {} THEN Refuse(op, a, 409, MsgRoleExists(name))
    ELSE /\ roles' = [roles EXCEPT ![id] = name]
         /\ Answer(op, a, 200, MsgNone, {[id |-> id, name |-> name]})
         /\ UNCHANGED data

\* A delete of a role that no foreign key guards.
DeleteRoleUnguarded(a, path) ==
    LET op == "DELETE /api/roles/:id"
        id == parseInt(path)
    IN
    IF ~ensureAuthenticated(a) THEN Refuse(op, a, 401, MsgUnauthorized)
    ELSE IF id = NaN THEN Refuse(op, a, 400, <<"Invalid role ID format">>)
    ELSE IF id \notin DOMAIN roles THEN Refuse(op, a, 404, <<"Role not found">>)
    ELSE /\ roles' = Without(roles, {id})
         /\ Answer(op, a, 200, MsgNone, {[id |-> id, name |-> roles[id]]})
         /\ UNCHANGED data

\* DELETE /api/roles/:id: users.role_id references roles with no ON DELETE
\* action, so the DELETE of a role that users hold fails with 23503.
DeleteRole(a, path) ==
    LET op == "DELETE /api/roles/:id"
        id == parseInt(path)
    IN
    IF ~ensureAuthenticated(a) THEN Refuse(op, a, 401, MsgUnauthorized)
    ELSE IF id = NaN THEN Refuse(op, a, 400, <<"Invalid role ID format">>)
    ELSE IF id \notin DOMAIN roles THEN Refuse(op, a, 404, <<"Role not found">>)
    ELSE IF \E u \in DOMAIN users : users[u].role_id = id
    THEN Refuse(op, a, 409, <<"Cannot delete role ID ", ToString(id), " because it is ",
                              "referenced by users", ".">>)
    ELSE /\ roles' = Without(roles, {id})
         /\ Answer(op, a, 200, MsgNone, {[id |-> id, name |-> roles[id]]})
         /\ UNCHANGED data

(***************************************************************************)
(* /api/meets.  A meet is modelled by its season, date, teams and format;  *)
(* the routes carry no gate.  No route writes meet_formats.                *)
(***************************************************************************)
meetFormats == {1}

MeetBody(season_id, meet_date, team1_id, team2_id, meet_format_id) ==
    [season_id |-> season_id, meet_date |-> meet_date, team1_id |-> team1_id,
     team2_id |-> team2_id, meet_format_id |-> meet_format_id]

\* createMeet: the message of the Error the INSERT ends in (MsgNone: the
\* row went in), from the foreign key PostgreSQL reports.
CreateMeetError(body) ==
    IF body.season_id # 0 /\ body.season_id \notin DOMAIN seasons
    THEN <<"Season with season_id ", ToString(body.season_id), " ", "does not exist", ".">>
    ELSE IF body.team1_id \notin DOMAIN teams
    THEN <<"Team with team1_id ", ToString(body.team1_id), " ", "does not exist", ".">>
    ELSE IF body.team2_id \notin DOMAIN teams
    THEN <<"Team with team2_id ", ToString(body.team2_id), " ", "does not exist", ".">>
    ELSE IF body.meet_format_id \notin meetFormats
    THEN <<"Meet format with meet_format_id ", ToString(body.meet_format_id), " ",
           "does not exist", ".">>
    ELSE MsgNone

\* POST /api/meets
CreateMeet(a, body) ==
    LET op == "POST /api/meets"
        id == seqs.meets
    IN
    IF body.meet_date = "" \/ body.team1_id = 0 \/ body.team2_id = 0 \/ body.meet_format_id = 0
    THEN Refuse(op, a, 400, <<"Missing required fields",
                              ": meet_date, team1_id, team2_id, meet_format_id">>)
    ELSE IF body.team1_id = body.team2_id
    THEN Refuse(op, a, 400, <<"team1_id and team2_id ", "cannot be the same", ".">>)
    ELSE /\ id <= MaxRowId
         /\ seqs' = [seqs EXCEPT !.meets = id + 1]
         /\ IF CreateMeetError(body) # MsgNone
            THEN /\ Answer(op, a, 400, CreateMeetError(body), {})
                 /\ UNCHANGED meets
            ELSE /\ meets' = (id :> body) @@ meets
                 /\ Answer(op, a, 201, MsgNone, {RowOut(id, body)})
         /\ UNCHANGED <<roles, teams, players, seasons, matches, sets>>

\* updateMeet's UPDATE: the fields the body carries.
UpdatedMeet(row, body) ==
    [season_id |-> IF body.season_id = Undefined THEN row.season_id ELSE body.season_id,
     meet_date |-> IF body.meet_date = "" THEN row.meet_date ELSE body.meet_date,
     team1_id |-> IF body.team1_id = Undefined THEN row.team1_id ELSE body.team1_id,
     team2_id |-> IF body.team2_id = Undefined THEN row.team2_id ELSE body.team2_id,
     meet_format_id |-> IF body.meet_format_id = Undefined THEN row.meet_format_id
                        ELSE body.meet_format_id]

\* PUT /api/meets/:id  (a meet_date of "" stands for a body without it).
\* A null in a NOT NULL column is no foreign key violation: 500.
UpdateMeet(a, path, body) ==
    LET op == "PUT /api/meets/:id"
        id == parseInt(path)
        row == UpdatedMeet(meets[id], body)
    IN
    IF id = NaN THEN Refuse(op, a, 400, <<"Invalid meet ID format">>)
    ELSE IF body = MeetBody(Undefined, "", Undefined, Undefined, Undefined)
    THEN Refuse(op, a, 400, <<"No update fields provided">>)
    ELSE IF id \notin DOMAIN meets THEN Refuse(op, a, 404, <<"Meet not found">>)
    ELSE IF row.team1_id = 0 \/ row.team2_id = 0 \/ row.meet_format_id = 0
    THEN Refuse(op, a, 500, <<"Error updating meet">>)
    ELSE IF \/ row.season_id \notin DOMAIN seasons \cup {0}
            \/ row.team1_id \notin DOMAIN teams \/ row.team2_id \notin DOMAIN teams
            \/ row.meet_format_id \notin meetFormats
    THEN Refuse(op, a, 400, <<"Foreign key constraint violation", " during update.">>)
    ELSE /\ meets' = [meets EXCEPT ![id] = row]
         /\ Answer(op, a, 200, MsgNone, {RowOut(id, row)})
         /\ UNCHANGED <<roles, teams, players, seasons, matches, sets, seqs>>

\* DELETE /api/meets/:id: the matches of the meet go with it, and their sets.
DeleteMeet(a, path) ==
    LET op == "DELETE /api/meets/:id"
        id == parseInt(path)
    IN
    IF id = NaN THEN Refuse(op, a, 400, <<"Invalid meet ID format">>)
    ELSE IF id \notin DOMAIN meets THEN Refuse(op, a, 404, <<"Meet not found">>)
    ELSE /\ meets' = Without(meets, {id})
         /\ matches' = Without(matches, MatchesOfMeets({id}))
         /\ sets' = Without(sets, SetsOfMatches(MatchesOfMeets({id})))
         /\ Answer(op, a, 200, MsgNone, {RowOut(id, meets[id])})
         /\ UNCHANGED <<roles, teams, players, seasons, seqs>>

(***************************************************************************)
(* /api/matches.  A match is modelled by its meet, line, first player of   *)
(* team 1 and winner code.                                                 *)
(***************************************************************************)
MatchBody(meet_id, line_number, line_type, team1_player1_id) ==
    [meet_id |-> meet_id, line_number |-> line_number, line_type |-> line_type,
     team1_player1_id |-> team1_player1_id]

\* createMatch: the row it inserts (winner_code defaults to 0).
NewMatchRow(body) == body @@ [winner_code |-> 0]

MatchIdsByLine(body) ==
    {x \in DOMAIN matches : /\ matches[x].meet_id = body.meet_id
                            /\ matches[x].line_number = body.line_number
                            /\ matches[x].line_type = body.line_type}

\* createMatch: the message of the Error it throws (MsgNone: the row went in).
CreateMatchError(body) ==
    IF body.meet_id = 0 \/ body.line_number = 0 \/ body.line_type = ""
    THEN <<"Missing required", " fields: meet_id, line_number, line_type">>
    ELSE IF body.line_type \notin {"Singles", "Doubles"}
    THEN <<"Invalid", " line_type. Must be 'Singles' or 'Doubles'.">>
    ELSE IF MatchIdsByLine(body) # {}
    THEN <<"Match line ", ToString(body.line_number), " (", body.line_type, ") ",
           "already exists", " for meet ID ", ToString(body.meet_id), ".">>
    ELSE IF \/ body.meet_id \notin DOMAIN meets
            \/ body.team1_player1_id \notin DOMAIN players \cup {0}
    THEN <<"Foreign key", " constraint violation. Check if meet_id or player IDs exist.">>
    ELSE MsgNone

\* POST /api/matches: the status of the Error createMatch threw.
CreateMatchStatus(msg) ==
    IF \/ Includes(msg, "Missing required") \/ Includes(msg, "Invalid")
       \/ Includes(msg, "Foreign key") \/ Includes(msg, "Check constraint")
    THEN 400
    ELSE IF Includes(msg, "already exists") THEN 409 ELSE 500

\* POST /api/matches
CreateMatch(a, body) ==
    LET op == "POST /api/matches"
        id == seqs.matches
        msg == CreateMatchError(body)
    IN
    IF ~ensureAuthenticated(a) THEN Refuse(op, a, 401, MsgUnauthorized)
    ELSE IF Includes(msg, "Missing required") \/ Includes(msg, "Invalid")
    THEN Refuse(op, a, CreateMatchStatus(msg), msg)
    ELSE /\ id <= MaxRowId
         /\ seqs' = [seqs EXCEPT !.matches = id + 1]
         /\ IF msg # MsgNone
            THEN /\ Answer(op, a, CreateMatchStatus(msg), msg, {})
                 /\ UNCHANGED matches
            ELSE /\ matches' = (id :> NewMatchRow(body)) @@ matches
                 /\ Answer(op, a, 201, MsgNone, {RowOut(id, NewMatchRow(body))})
         /\ UNCHANGED <<roles, teams, players, seasons, meets, sets>>

MatchUpdate(team1_player1_id, winner_code) ==
    [team1_player1_id |-> team1_player1_id, winner_code |-> winner_code]

\* updateMatch's UPDATE: the fields the body carries.
UpdatedMatch(row, body) ==
    [row EXCEPT !.team1_player1_id = IF body.team1_player1_id = Undefined THEN @
                                     ELSE body.team1_player1_id,
                !.winner_code = IF body.winner_code = Undefined THEN @
                                ELSE body.winner_code]

\* PUT /api/matches/:id
UpdateMatch(a, path, body) ==
    LET op == "PUT /api/matches/:id"
        id == parseInt(path)
        row == UpdatedMatch(matches[id], body)
    IN
    IF ~ensureAuthenticated(a) THEN Refuse(op, a, 401, MsgUnauthorized)
    ELSE IF id = NaN THEN Refuse(op, a, 400, <<"Invalid match ID format">>)
    ELSE IF body = MatchUpdate(Undefined, Undefined)
    THEN Refuse(op, a, 400, <<"No update fields provided">>)
    ELSE IF id \notin DOMAIN matches THEN Refuse(op, a, 404, <<"Match not found">>)
    ELSE IF row.team1_player1_id \notin DOMAIN players \cup {0}
    THEN Refuse(op, a, 400, <<"Foreign key", " constraint violation. Check if player IDs exist.">>)
    ELSE /\ matches' = [matches EXCEPT ![id] = row]
         /\ Answer(op, a, 200, MsgNone, {RowOut(id, row)})
         /\ UNCHANGED <<roles, teams, players, seasons, meets, sets, seqs>>

\* DELETE /api/matches/:id: the sets of the match go with it.
DeleteMatch(a, path) ==
    LET op == "DELETE /api/matches/:id"
        id == parseInt(path)
    IN
    IF ~ensureAuthenticated(a) THEN Refuse(op, a, 401, MsgUnauthorized)
    ELSE IF id = NaN THEN Refuse(op, a, 400, <<"Invalid match ID format">>)
    ELSE IF id \notin DOMAIN matches THEN Refuse(op, a, 404, <<"Match not found">>)
    ELSE /\ matches' = Without(matches, {id})
         /\ sets' = Without(sets, SetsOfMatches({id}))
         /\ Answer(op, a, 200, MsgNone, {RowOut(id, matches[id])})
         /\ UNCHANGED <<roles, teams, players, seasons, meets, seqs>>

(***************************************************************************)
(* /api/matches/:matchId/sets and /api/sets/:id.  A set is modelled by its *)
(* match, number and games; the routes carry no gate.                      *)
(***************************************************************************)
SetBody(set_number, team1_games_won, team2_games_won) ==
    [set_number |-> set_number, team1_games_won |-> team1_games_won,
     team2_games_won |-> team2_games_won]

\* A row whose match_id is the one of the body when the body has one.
NewSetRowBodyFirst(matchId, body) == body @@ [match_id |-> matchId]

\* The row createSet inserts for { ...req.body, match_id: req.matchId }.
NewSetRow(matchId, body) == [match_id |-> matchId] @@ body

SetIdsByNumber(matchId, set_number) ==
    {x \in DOMAIN sets : sets[x].match_id = matchId /\ sets[x].set_number = set_number}

\* A sets table without its unique index over (match_id, set_number).
CreateSetErrorNoUnique(matchId, body) ==
    IF \/ body.set_number = Undefined \/ body.team1_games_won = Undefined
       \/ body.team2_games_won = Undefined
    THEN <<"Missing required", " fields: match_id, set_number, team1_games_won, team2_games_won">>
    ELSE IF body.team1_games_won < 0 \/ body.team2_games_won < 0
    THEN <<"Check constraint", " violation (e.g., games_won must be non-negative).">>
    ELSE MsgNone

\* createSet: the message of the Error it throws (MsgNone: the row went
\* in).  CHECK constraints are tested before the unique index.
CreateSetError(matchId, body) ==
    IF \/ body.set_number = Undefined \/ body.team1_games_won = Undefined
       \/ body.team2_games_won = Undefined
    THEN <<"Missing required", " fields: match_id, set_number, team1_games_won, team2_games_won">>
    ELSE IF body.team1_games_won < 0 \/ body.team2_games_won < 0
    THEN <<"Check constraint", " violation (e.g., games_won must be non-negative).">>
    ELSE IF SetIdsByNumber(matchId, body.set_number) # {}
    THEN <<"Set number ", ToString(body.set_number), " ", "already exists",
           " for match ID ", ToString(matchId), ".">>
    ELSE MsgNone

\* POST /api/matches/:matchId/sets: the status of the Error createSet threw.
CreateSetStatus(msg) ==
    IF \/ Includes(msg, "Missing required") \/ Includes(msg, "Invalid")
       \/ Includes(msg, "Foreign key") \/ Includes(msg, "Check constraint")
    THEN 400
    ELSE IF Includes(msg, "already exists") THEN 409 ELSE 500

\* POST /api/matches/:matchId/sets: the router's middleware, then the route.
CreateSet(a, path, body) ==
    LET op == "POST /api/matches/:matchId/sets"
        matchId == parseInt(path)
        id == seqs.sets
        msg == CreateSetError(matchId, body)
    IN
    IF matchId = NaN THEN Refuse(op, a, 400, <<"Invalid match ID format in URL">>)
    ELSE IF matchId \notin DOMAIN matches
    THEN Refuse(op, a, 404, <<"Match with ID ", ToString(matchId), " not found">>)
    ELSE IF Includes(msg, "Missing required") THEN Refuse(op, a, CreateSetStatus(msg), msg)
    ELSE /\ id <= MaxRowId
         /\ seqs' = [seqs EXCEPT !.sets = id + 1]
         /\ IF msg # MsgNone
            THEN /\ Answer(op, a, CreateSetStatus(msg), msg, {})
                 /\ UNCHANGED sets
            ELSE /\ sets' = (id :> NewSetRow(matchId, body)) @@ sets
                 /\ Answer(op, a, 201, MsgNone, {RowOut(id, NewSetRow(matchId, body))})
         /\ UNCHANGED <<roles, teams, players, seasons, meets, matches>>

\* The body of PUT /api/sets/:id.
SetUpdate(match_id, set_number, team1_games_won, team2_games_won) ==
    [match_id |-> match_id, set_number |-> set_number,
     team1_games_won |-> team1_games_won, team2_games_won |-> team2_games_won]

\* updateSet's UPDATE: the fields the body carries.
UpdatedSet(row, body) ==
    [row EXCEPT !.team1_games_won = IF body.team1_games_won = Undefined THEN @
                                    ELSE body.team1_games_won,
                !.team2_games_won = IF body.team2_games_won = Undefined THEN @
                                    ELSE body.team2_games_won]

\* PUT /api/sets/:id
UpdateSet(a, path, body) ==
    LET op == "PUT /api/sets/:id"
        id == parseInt(path)
        row == UpdatedSet(sets[id], body)
    IN
    IF id = NaN THEN Refuse(op, a, 400, <<"Invalid set ID format">>)
    ELSE IF body = SetUpdate(Undefined, Undefined, Undefined, Undefined)
    THEN Refuse(op, a, 400, <<"No update fields provided">>)
    ELSE IF body.match_id # Undefined \/ body.set_number # Undefined
    THEN Refuse(op, a, 400, <<"Cannot update match_id or set_number via this endpoint.">>)
    ELSE IF id \notin DOMAIN sets THEN Refuse(op, a, 404, <<"Set not found">>)
    ELSE IF row.team1_games_won < 0 \/ row.team2_games_won < 0
    THEN Refuse(op, a, 400, <<"Check constraint", " violation (e.g., games_won must be non-negative).">>)
    ELSE /\ sets' = [sets EXCEPT ![id] = row]
         /\ Answer(op, a, 200, MsgNone, {RowOut(id, row)})
         /\ UNCHANGED <<roles, teams, players, seasons, meets, matches, seqs>>

\* DELETE /api/sets/:id
DeleteSet(a, path) ==
    LET op == "DELETE /api/sets/:id"
        id == parseInt(path)
    IN
    IF id = NaN THEN Refuse(op, a, 400, <<"Invalid set ID format">>)
    ELSE IF id \notin DOMAIN sets THEN Refuse(op, a, 404, <<"Set not found">>)
    ELSE /\ sets' = Without(sets, {id})
         /\ Answer(op, a, 200, MsgNone, {RowOut(id, sets[id])})
         /\ UNCHANGED <<roles, teams, players, seasons, meets, matches, seqs>>

(***************************************************************************)
(* /api/users.  POST carries no gate; PUT and DELETE do.                   *)
(***************************************************************************)
\* A text field that the JSON does not carry ("" is null).
Absent == "undefined"

UserCreate(email, name, role_id, password, google_id) ==
    [email |-> email, name |-> name, role_id |-> role_id, password |-> password,
     google_id |-> google_id]

\* The response of a user route; no user route writes the session, the
\* roles or the resource sequences.
UserAnswer(op, a, status, msg, body) ==
    /\ last' = Response(op, a, status, msg, body)
    /\ KeepSession(a)
    /\ UNCHANGED <<roles, regs, inflight, seasons, meets, sets, seqs>>

UserRefuse(op, a, status, msg) ==
    /\ UserAnswer(op, a, status, msg, {})
    /\ UNCHANGED <<users, userSeq, teams, players, matches>>

\* A column list that is the whole row (RETURNING *, SELECT *).
ReturningStar(id, row) == UserBody(id, row, "", row.password)

\* The columns the statements of userService return: id, google_id, email,
\* name, role_id and the timestamps.
Returning(id, row) == UserBody(id, row, "", NoPassword)

\* GET /api/users
GetUsers(a) ==
    /\ UserAnswer("GET /api/users", a, 200, MsgNone,
                  {Returning(u, users[u]) : u \in DOMAIN users})
    /\ UNCHANGED <<users, userSeq, teams, players, matches>>

\* GET /api/users/:id
GetUser(a, path) ==
    LET op == "GET /api/users/:id"
        id == parseInt(path)
    IN
    IF id = NaN THEN UserRefuse(op, a, 400, <<"Invalid user ID format">>)
    ELSE IF id \notin DOMAIN users THEN UserRefuse(op, a, 404, <<"User not found">>)
    ELSE /\ UserAnswer(op, a, 200, MsgNone, {Returning(id, users[id])})
         /\ UNCHANGED <<users, userSeq, teams, players, matches>>

\* POST /api/users: the status of the Error createUser threw.
CreateUserStatus(msg) ==
    IF Includes(msg, "already exists") THEN 409
    ELSE IF Includes(msg, "Missing required fields") THEN 400 ELSE 500

\* POST /api/users: createUser gets req.body whole, password included.
CreateUser(a, body, salts) ==
    LET op == "POST /api/users" IN
    IF body.email = "" \/ body.name = "" \/ body.role_id = 0
    THEN UserRefuse(op, a, 400, <<"Missing required fields", ": email, name, role_id">>)
    ELSE IF body.role_id < 1 \/ body.role_id > 4
    THEN UserRefuse(op, a, 400, <<"Invalid role_id. Must be an integer between 1 and 4.">>)
    ELSE /\ userSeq <= MaxUserId
         /\ userSeq' = userSeq + 1
         /\ \E salt \in salts :
              LET row == CreateUserRow(body.email, body.name, body.role_id,
                                       body.password, body.google_id, salt)
                  msg == CreateUserErrorMessage(row)
              IN
              IF InsertUserError(row).code = ""
              THEN /\ users' = InsertedUsers(row)
                   /\ UserAnswer(op, a, 201, MsgNone, {Returning(userSeq, row)})
              ELSE /\ UserAnswer(op, a, CreateUserStatus(msg),
                                 IF CreateUserStatus(msg) = 500
                                 THEN <<"Error creating user">> ELSE msg, {})
                   /\ UNCHANGED users
         /\ UNCHANGED <<teams, players, matches>>

UserUpdate(email, name, role_id, google_id, password) ==
    [email |-> email, name |-> name, role_id |-> role_id, google_id |-> google_id,
     password |-> password]

\* updateUser's UPDATE: the fields the body carries.
UpdatedUser(row, body) ==
    [email |-> IF body.email = Absent THEN row.email ELSE body.email,
     name |-> IF body.name = Absent THEN row.name ELSE body.name,
     password |-> row.password,
     google_id |-> IF body.google_id = Absent THEN row.google_id ELSE body.google_id,
     role_id |-> IF body.role_id = Undefined THEN row.role_id ELSE body.role_id]

\* The SQLSTATE the UPDATE of user id to `row` ends in ("" when it went
\* through): NOT NULL, then the unique indexes, then the foreign key.
UpdateUserError(id, row) ==
    IF row.email = "" \/ row.name = "" THEN "23502"
    ELSE IF \/ UserIdsByEmail(row.email) \ {id} # {}
            \/ (row.google_id # "" /\ UserIdsByGoogleId(row.google_id) \ {id} # {})
    THEN "23505"
    ELSE IF row.role_id \notin DOMAIN roles THEN "23503"
    ELSE ""

\* An update that hashes and stores the password of the body with the rest.
UpdateUserPasswordToo(a, path, body) ==
    LET op == "PUT /api/users/:id"
        id == parseInt(path)
        row == IF body.password = Absent THEN UpdatedUser(users[id], body)
               ELSE [UpdatedUser(users[id], body) EXCEPT
                        !.password = bcryptHash(body.password, "s1")]
    IN
    IF ~ensureAuthenticated(a) THEN UserRefuse(op, a, 401, MsgUnauthorized)
    ELSE IF id = NaN THEN UserRefuse(op, a, 400, <<"Invalid user ID format">>)
    ELSE IF id \notin DOMAIN users THEN UserRefuse(op, a, 404, <<"User not found">>)
    ELSE IF UpdateUserError(id, row) # ""
    THEN UserRefuse(op, a, 500, <<"Error updating user">>)
    ELSE /\ users' = [users EXCEPT ![id] = row]
         /\ UserAnswer(op, a, 200, MsgNone, {Returning(id, row)})
         /\ UNCHANGED <<userSeq, teams, players, matches>>

\* PUT /api/users/:id
UpdateUser(a, path, body) ==
    LET op == "PUT /api/users/:id"
        id == parseInt(path)
        row == UpdatedUser(users[id], body)
    IN
    IF ~ensureAuthenticated(a) THEN UserRefuse(op, a, 401, MsgUnauthorized)
    ELSE IF id = NaN THEN UserRefuse(op, a, 400, <<"Invalid user ID format">>)
    ELSE IF /\ body.email = Absent /\ body.name = Absent
            /\ body.role_id = Undefined /\ body.google_id = Absent
    THEN UserRefuse(op, a, 400, <<"No update fields provided">>)
    ELSE IF body.role_id # Undefined /\ (body.role_id < 1 \/ body.role_id > 4)
    THEN UserRefuse(op, a, 400, <<"Invalid role_id. Must be an integer between 1 and 4.">>)
    ELSE IF body.password # Absent THEN UserRefuse(op, a, 500, <<"Error updating user">>)
    ELSE IF id \notin DOMAIN users THEN UserRefuse(op, a, 404, <<"User not found">>)
    ELSE IF UpdateUserError(id, row) = "23505"
    THEN UserRefuse(op, a, 409, <<"Email or Google ID ", "already in use", " by another user.">>)
    ELSE IF UpdateUserError(id, row) # ""
    THEN UserRefuse(op, a, 500, <<"Error updating user">>)
    ELSE /\ users' = [users EXCEPT ![id] = row]
         /\ UserAnswer(op, a, 200, MsgNone, {Returning(id, row)})
         /\ UNCHANGED <<userSeq, teams, players, matches>>

\* DELETE /api/users/:id: the player row of the user goes with it (and the
\* matches it is entered in lose it), the teams it coaches lose their coach.
DeleteUser(a, path) ==
    LET op == "DELETE /api/users/:id"
        id == parseInt(path)
        gone == PlayerIdsByUser(id)
    IN
    IF ~ensureAuthenticated(a) THEN UserRefuse(op, a, 401, MsgUnauthorized)
    ELSE IF id = NaN THEN UserRefuse(op, a, 400, <<"Invalid user ID format">>)
    ELSE IF id \notin DOMAIN users THEN UserRefuse(op, a, 404, <<"User not found">>)
    ELSE /\ users' = [u \in DOMAIN users \ {id} |-> users[u]]
         /\ players' = Without(players, gone)
         /\ matches' = [x \in DOMAIN matches |->
                          IF matches[x].team1_player1_id \in gone
                          THEN [matches[x] EXCEPT !.team1_player1_id = 0] ELSE matches[x]]
         /\ teams' = [t \in DOMAIN teams |->
                        IF teams[t].coach_id = id
                        THEN [teams[t] EXCEPT !.coach_id = 0] ELSE teams[t]]
         /\ UserAnswer(op, a, 200, MsgNone,
                       {[id |-> id, email |-> users[id].email, name |-> users[id].name]})
         /\ UNCHANGED userSeq

(***************************************************************************)
(* Requests during which a query of passport-setup.js throws.              *)
(***************************************************************************)
\* A verify callback that runs its query again and then goes on as usual.
LoginDbErrorRetried(a, email, password) == Login(a, email, password)

\* POST /api/auth/login, the SELECT of the verify callback throws: the catch
\* calls done(err), the route calls next(err) and the error handler answers.
LoginDbError(a, email, password) ==
    /\ email # "" /\ password # ""
    /\ last' = Response("login", a, 500, MsgSomethingBroke, {})
    /\ KeepSession(a)
    /\ UNCHANGED <<users, userSeq, roles, regs, inflight, data>>

\* Any request of a session that holds a user id, the SELECT of
\* deserializeUser throws: done(err, null), passport.session calls next(err)
\* and no route runs; the session is not written.
DeserializeDbError(a, op) ==
    /\ SessionUser(a) # 0
    /\ last' = Response(op, a, 500, MsgSomethingBroke, {})
    /\ UNCHANGED <<sessions, cookie, users, userSeq, roles, regs, inflight, data>>

(***************************************************************************)
(* DELETE /api/sets/:id in the two statements of deleteSet, so that the    *)
(* requests of two clients can interleave.                                 *)
(***************************************************************************)
\* The route parses the id and deleteSet runs its SELECT: without a row the
\* route answers 404, with one the request goes on to the DELETE holding it.
DeleteSetSelect(a, path) ==
    LET op == "DELETE /api/sets/:id"
        id == parseInt(path)
        blank == NoRequest
    IN
    /\ inflight[a].pc \in {"idle", "done"}
    /\ IF id = NaN
       THEN /\ inflight' = [inflight EXCEPT ![a] =
                    Request("done", blank.body, blank.row, 0, 0, 400, MsgNone)]
            /\ last' = Response(op, a, 400, <<"Invalid set ID format">>, {})
       ELSE IF id \notin DOMAIN sets
       THEN /\ inflight' = [inflight EXCEPT ![a] =
                    Request("done", blank.body, blank.row, 0, id, 404, MsgNone)]
            /\ last' = Response(op, a, 404, <<"Set not found">>, {})
       ELSE /\ inflight' = [inflight EXCEPT ![a] =
                    Request("delete", blank.body, sets[id], 1, id, 0, MsgNone)]
            /\ UNCHANGED last
    /\ KeepSession(a)
    /\ UNCHANGED <<users, userSeq, roles, regs, data>>

\* deleteSet's DELETE statement (of no row when the row is gone by now),
\* after which it returns the row it selected and the route sends it.
DeleteSetDelete(a) ==
    LET req == inflight[a] IN
    /\ req.pc = "delete"
    /\ sets' = Without(sets, {req.id} \cap DOMAIN sets)
    /\ inflight' = [inflight EXCEPT ![a].pc = "done", ![a].status = 200]
    /\ last' = Response("DELETE /api/sets/:id", a, 200, MsgNone, {RowOut(req.id, req.row)})
    /\ UNCHANGED <<users, userSeq, roles, sessions, cookie, regs, teams, players,
                   seasons, meets, matches, seqs>>

(***************************************************************************)
(* Specification                                                           *)
(***************************************************************************)
Init ==
    /\ users = << >>
    /\ userSeq = 1
    /\ roles = (1 :> "Admin") @@ (2 :> "Coach") @@ (3 :> "Player") @@ (4 :> "Guest")
    /\ sessions = << >>
    /\ cookie = [a \in Agents |-> 0]
    /\ regs = {}
    /\ inflight = [a \in Agents |-> NoRequest]
    /\ teams = << >> /\ players = << >> /\ seasons = << >>
    /\ meets = << >> /\ matches = << >> /\ sets = << >>
    /\ seqs = [teams |-> 1, players |-> 1, seasons |-> 1, meets |-> 1,
               matches |-> 1, sets |-> 1, roles |-> 5]
    /\ last = Response("none", "a1", 0, MsgNone, {})

Next ==
    \/ \E a \in Agents, body \in RegisterBodies({"secret1"}) : Register(a, body, {"s1"})
    \/ \E a \in Agents, email \in EmailIn, password \in LoginPasswordIn :
            Login(a, email, password)
    \/ \E a \in Agents : Logout(a)
    \/ \E a \in Agents : Status(a)
    \/ \E a \in Agents, profile \in GoogleProfiles :
            GoogleCallback(a, profile.id, profile.email, profile.name)
    \/ \E a \in Agents : GoogleDenied(a)
    \/ \E a \in Agents : SessionExpire(a)
    \/ \E a \in Agents, path \in {"1", "abc"} : DeletePlayer(a, path)

Spec == Init /\ [][Next]_vars

\* Register requests of the two clients in flight at the same time.
NextRace ==
    \/ \E a \in Agents, body \in RaceBodies : RegisterReceive(a, body, {"s1"})
    \/ \E a \in Agents : RegisterInsert(a)
    \/ \E a \in Agents : RegisterRespond(a)

SpecRace == Init /\ [][NextRace]_vars

\* Principals of each role, and the gated routes of players.
GateBodies ==
    {RegisterBody("a@x.com", "A", "secret1", 1), RegisterBody("a@x.com", "A", "secret1", 2),
     RegisterBody("b@x.com", "B", "secret1", 3), RegisterBody("b@x.com", "B", "secret1", 4)}
PlayerBodies == {PlayerBody(1, 0, ""), PlayerBody(2, 0, ""), PlayerBody(0, 0, ""),
                 PlayerBody(2, 1, "")}
PlayerUpdates == {PlayerBody(0, Undefined, "true"), PlayerBody(0, Undefined, ""),
                  PlayerBody(0, 1, "")}

NextGate ==
    \/ \E a \in Agents, body \in GateBodies : Register(a, body, {"s1"})
    \/ \E a \in Agents, password \in {"secret1", "hunter22"} : Login(a, "b@x.com", password)
    \/ \E a \in Agents : Logout(a)
    \/ \E a \in Agents, body \in PlayerBodies : CreatePlayer(a, body)
    \/ \E a \in Agents, path \in PathIds, body \in PlayerUpdates : UpdatePlayer(a, path, body)
    \/ \E a \in Agents, path \in PathIds : DeletePlayer(a, path)

SpecGate == Init /\ [][NextGate]_vars

\* The data the tests of the sets API start from: a Coach registered by the
\* first client, who stays logged in, two teams, a Player on the first
\* team (the second Player is left out), a meet format, a meet and a match;
\* the second client has no session.
InitCrud ==
    /\ users = (1 :> CreateUserRow("a@x.com", "A", 2, "secret1", "", "s1"))
                   @@ (2 :> CreateUserRow("b@x.com", "B", 3, "", "", "s1"))
    /\ userSeq = 3
    /\ roles = (1 :> "Admin") @@ (2 :> "Coach") @@ (3 :> "Player") @@ (4 :> "Guest")
    /\ sessions = (1 :> 1)
    /\ cookie = [a \in Agents |-> IF a = "a1" THEN 1 ELSE 0]
    /\ regs = {[email |-> "a@x.com", password |-> "secret1", id |-> 1]}
    /\ inflight = [a \in Agents |-> NoRequest]
    /\ teams = (1 :> TeamBody("T1", 1)) @@ (2 :> TeamBody("T2", 0))
    /\ players = (1 :> PlayerBody(2, 1, "false"))
    /\ seasons = << >>
    /\ meets = (1 :> MeetBody(0, "d1", 1, 2, 1))
    /\ matches = (1 :> NewMatchRow(MatchBody(1, 1, "Singles", 1)))
    /\ sets = << >>
    /\ seqs = [teams |-> 3, players |-> 2, seasons |-> 1, meets |-> 2,
               matches |-> 2, sets |-> 1, roles |-> 5]
    /\ last = Response("POST /api/matches", "a1", 201, MsgNone,
                       {RowOut(1, NewMatchRow(MatchBody(1, 1, "Singles", 1)))})

\* The request bodies of the resource routes.
TeamBodies == {TeamBody("T3", 0), TeamBody("", 0)}
TeamUpdates == {TeamBody("U", Undefined), TeamBody("", Undefined)}
SeasonBodies == {SeasonBody("S"), SeasonBody("")}
RoleNamesIn == {"Umpire", "Coach", ""}
MeetBodies == {MeetBody(1, "d2", 2, 1, 1), MeetBody(0, "d2", 1, 1, 1),
               MeetBody(0, "", 1, 2, 1)}
MeetUpdates == {MeetBody(Undefined, "", 2, Undefined, Undefined),
                MeetBody(Undefined, "", Undefined, Undefined, Undefined)}
MatchBodies == {MatchBody(1, 1, "Singles", 0), MatchBody(1, 1, "Doubles", 1),
                MatchBody(1, 1, "Mixed", 0), MatchBody(2, 1, "Singles", 0)}
MatchUpdates == {MatchUpdate(Undefined, 1), MatchUpdate(2, Undefined),
                 MatchUpdate(Undefined, Undefined)}
SetBodies == {SetBody(1, 6, 4), SetBody(1, -1, 6), SetBody(1, Undefined, 6)}
SetUpdates == {SetUpdate(Undefined, Undefined, 7, Undefined),
               SetUpdate(Undefined, Undefined, Undefined, -1),
               SetUpdate(1, Undefined, 7, Undefined)}

\* The client that holds no session in InitCrud.
Visitors == {"a2"}

\* Every mutating resource route, asked for by the client that holds no
\* session; the client that is logged in removes teams and matches, and
\* with them their meets, matches and sets.
NextCrud ==
    \/ \E a \in Visitors, body \in TeamBodies : CreateTeam(a, body)
    \/ \E a \in Visitors, path \in PathIds, body \in TeamUpdates : UpdateTeam(a, path, body)
    \/ \E a \in Agents, path \in PathIds : DeleteTeam(a, path)
    \/ \E a \in Visitors, body \in PlayerBodies : CreatePlayer(a, body)
    \/ \E a \in Visitors, path \in PathIds, body \in PlayerUpdates : UpdatePlayer(a, path, body)
    \/ \E a \in Visitors, path \in PathIds : DeletePlayer(a, path)
    \/ \E a \in Visitors, body \in SeasonBodies : CreateSeason(a, body)
    \/ \E a \in Visitors, path \in PathIds, body \in SeasonBodies : UpdateSeason(a, path, body)
    \/ \E a \in Visitors, path \in PathIds : DeleteSeason(a, path)
    \/ \E a \in Visitors, name \in RoleNamesIn : CreateRole(a, name)
    \/ \E a \in Visitors, path \in PathIds, name \in RoleNamesIn : UpdateRole(a, path, name)
    \/ \E a \in Visitors, path \in PathIds : DeleteRole(a, path)
    \/ \E a \in Visitors, body \in MeetBodies : CreateMeet(a, body)
    \/ \E a \in Visitors, path \in PathIds, body \in MeetUpdates : UpdateMeet(a, path, body)
    \/ \E a \in Visitors, path \in PathIds : DeleteMeet(a, path)
    \/ \E a \in Visitors, body \in MatchBodies : CreateMatch(a, body)
    \/ \E a \in Visitors, path \in PathIds, body \in MatchUpdates : UpdateMatch(a, path, body)
    \/ \E a \in Agents, path \in PathIds : DeleteMatch(a, path)
    \/ \E a \in Visitors, path \in PathIds, body \in SetBodies : CreateSet(a, path, body)
    \/ \E a \in Visitors, path \in PathIds, body \in SetUpdates : UpdateSet(a, path, body)
    \/ \E a \in Visitors, path \in PathIds : DeleteSet(a, path)

SpecCrud == InitCrud /\ [][NextCrud]_vars

\* The user and role routes behind the sessions of the auth routes: one
\* registered Coach, one Google account, and users made through /api/users.
UserBodies ==
    {UserCreate("b@x.com", "B", 3, "", ""), UserCreate("b@x.com", "B", 0, "", "")}
UserUpdates ==
    {UserUpdate(Absent, Absent, 3, Absent, Absent),
     UserUpdate(Absent, Absent, 2, Absent, Absent),
     UserUpdate("c@x.com", "N", Undefined, "", Absent),
     UserUpdate(Absent, Absent, Undefined, Absent, "hunter22"),
     UserUpdate(Absent, "P", 3, Absent, "hunter22")}
UserPaths == {"1", "2"}
Staff == {"a1"}

NextUsers ==
    \/ \E a \in Staff : Register(a, RegisterBody("a@x.com", "A", "secret1", 2), {"s1"})
    \/ \E a \in Staff : Login(a, "a@x.com", "secret1")
    \/ \E a \in Agents : Status(a)
    \/ \E a \in Visitors : GoogleCallback(a, "g1", "b@x.com", "G")
    \/ \E a \in Visitors, body \in UserBodies : CreateUser(a, body, {"s1"})
    \/ \E a \in Staff, path \in UserPaths, body \in UserUpdates : UpdateUser(a, path, body)
    \/ \E a \in Staff : DeleteUser(a, "2")
    \/ \E a \in Visitors : GetUsers(a)
    \/ \E a \in Visitors : GetUser(a, "1")
    \/ \E a \in Staff, path \in {"2", "3"} : UpdateRole(a, path, "Umpire")
    \/ \E a \in Staff, path \in {"2", "3"} : DeleteRole(a, path)
    \/ \E a \in Agents : DeletePlayer(a, "1")

SpecUsers == Init /\ [][NextUsers]_vars

\* The auth routes over a database whose queries may throw.
NextFail ==
    \/ \E a \in Agents : Register(a, RegisterBody("a@x.com", "A", "secret1", 3), {"s1"})
    \/ \E a \in Agents, password \in {"secret1", "hunter22"} : Login(a, "a@x.com", password)
    \/ \E a \in Agents : Logout(a)
    \/ \E a \in Agents : Status(a)
    \/ \E a \in Agents, password \in {"secret1", "hunter22"} :
            LoginDbError(a, "a@x.com", password)
    \/ \E a \in Agents, op \in {"status", "login", "logout"} : DeserializeDbError(a, op)

SpecFail == Init /\ [][NextFail]_vars

\* The set routes under two matches; a body with set_number 2 names match 2.
NestedSetBodies ==
    {SetBody(1, 6, 4), [match_id |-> 2] @@ SetBody(2, 6, 4), SetBody(1, -1, 6)}

NextSets ==
    \/ \E a \in Staff : CreateMatch(a, MatchBody(1, 2, "Singles", 0))
    \/ \E a \in Staff, path \in {"1", "2"} : DeleteMatch(a, path)
    \/ \E a \in Agents, path \in PathIds, body \in NestedSetBodies : CreateSet(a, path, body)
    \/ \E a \in Visitors, path \in PathIds, body \in SetUpdates : UpdateSet(a, path, body)
    \/ \E a \in Visitors, path \in PathIds : DeleteSet(a, path)

SpecSets == InitCrud /\ [][NextSets]_vars

\* One client that registers with the Player role, over a database that
\* holds the player row of another user.
InitPlayer ==
    /\ users = (1 :> CreateUserRow("b@x.com", "B", 3, "", "g1", "s1"))
    /\ userSeq = 2
    /\ roles = (1 :> "Admin") @@ (2 :> "Coach") @@ (3 :> "Player") @@ (4 :> "Guest")
    /\ sessions = << >>
    /\ cookie = [a \in Agents |-> 0]
    /\ regs = {}
    /\ inflight = [a \in Agents |-> NoRequest]
    /\ teams = (1 :> TeamBody("T1", 0))
    /\ players = (1 :> PlayerBody(1, 1, "false"))
    /\ seasons = << >> /\ meets = << >> /\ matches = << >> /\ sets = << >>
    /\ seqs = [teams |-> 2, players |-> 2, seasons |-> 1, meets |-> 1,
               matches |-> 1, sets |-> 1, roles |-> 5]
    /\ last = Response("none", "a1", 0, MsgNone, {})

RoleUpdates ==
    {UserUpdate(Absent, Absent, r, Absent, Absent) : r \in 1..4}

NextPlayer ==
    \/ \E a \in Visitors : Register(a, RegisterBody("a@x.com", "A", "secret1", 3), {"s1"})
    \/ \E a \in Visitors, password \in {"secret1", "hunter22"} : Login(a, "a@x.com", password)
    \/ \E a \in Visitors : Logout(a)
    \/ \E a \in Visitors : Status(a)
    \/ \E a \in Visitors, path \in UserPaths, body \in RoleUpdates : UpdateUser(a, path, body)
    \/ \E a \in Visitors, path \in PathIds : DeletePlayer(a, path)

SpecPlayer == InitPlayer /\ [][NextPlayer]_vars

\* Deletes of sets by two clients at once, over the set routes.
NextDeleteRace ==
    \/ \E a \in Agents, path \in PathIds : DeleteSetSelect(a, path)
    \/ \E a \in Agents : DeleteSetDelete(a)
    \/ \E a \in Visitors, body \in {SetBody(1, 6, 4), SetBody(2, 6, 4)} : CreateSet(a, "1", body)
    \/ \E a \in Visitors, path \in {"1", "2"} :
            UpdateSet(a, path, SetUpdate(Undefined, Undefined, 7, Undefined))

SpecDeleteRace == InitCrud /\ [][NextDeleteRace]_vars

(***************************************************************************)
(* Properties of the authentication routes.                                *)
(***************************************************************************)
\* The fields of a registration body the route calls missing or too short.
BodyRejected(body) ==
    \/ body.email = "" \/ body.name = "" \/ body.password = "" \/ body.role_id = 0
    \/ Len(body.password) < 6

\* C1: a login with the email and password of a registration that returned
\* 201 answers 200 with the id that registration returned, from any client
\* and whatever logouts and failed logins came in between.
RegisterLoginRoundTrip ==
    [][\A a \in Agents : \A r \in regs :
          (last'.op = "login" /\ last'.agent = a /\ Login(a, r.email, r.password)) =>
              /\ last'.status = 200
              /\ \E u \in last'.body : u.id = r.id /\ u.email = r.email]_vars

\* A login answered 200 with the id of an earlier registration, by a client
\* that held no authenticated session (it logged out, or never registered).
RegisterLoginRoundTripWitness ==
    /\ last.op = "login" /\ last.status = 200
    /\ \E r \in regs : \E u \in last.body : u.id = r.id
    /\ \E a \in Agents : a # last.agent /\ SessionLoaded(a) /\ SessionUser(a) = 0

\* A register request that would be accepted if it were the only one.
Registrable(body) == ~BodyRejected(body) /\ body.role_id \in DOMAIN roles

\* C2: of two answered register requests with the same email, however their
\* steps interleaved, at most one got 201, the other 409 with a message that
\* contains 'already exists', and the one users row with that email holds
\* the name, role and password of the request that got 201.
DuplicateRegistration ==
    \A a \in Agents : \A b \in Agents \ {a} :
        LET ra == inflight[a]
            rb == inflight[b]
            ids == UserIdsByEmail(ra.body.email)
        IN
        (/\ ra.pc = "done" /\ rb.pc = "done"
         /\ ra.body.email = rb.body.email
         /\ Registrable(ra.body) /\ Registrable(rb.body)) =>
            /\ Cardinality(ids) = 1
            /\ rb.status = 201 \/ (rb.status = 409 /\ Includes(rb.error, "already exists"))
            /\ ra.status = 201 =>
                  /\ rb.status = 409
                  /\ ids = {ra.id}
                  /\ users[ra.id].name = ra.body.name
                  /\ users[ra.id].role_id = ra.body.role_id
                  /\ bcryptCompare(ra.body.password, users[ra.id].password)

\* Two requests with the same email and different passwords that were both
\* received before either INSERT ran, both answered: one 201, one 409.
DuplicateRegistrationWitness ==
    \E a \in Agents : \E b \in Agents \ {a} :
        /\ inflight[a].pc = "done" /\ inflight[b].pc = "done"
        /\ inflight[a].body.email = inflight[b].body.email
        /\ inflight[a].body.password # inflight[b].body.password
        /\ inflight[a].seen = 1 /\ inflight[b].seen = 1
        /\ inflight[a].status = 201 /\ inflight[b].status = 409

\* C3: a session that has no principal gets one only by the step of a
\* successful register, local login or Google resolution made on it.
AuthenticatedOnlyBySuccess ==
    [][\A a \in Agents :
          (~isAuthenticated(a) /\ isAuthenticated(a)') =>
              /\ last'.agent = a
              /\ \/ last'.op = "register" /\ last'.status = 201
                 \/ last'.op = "login" /\ last'.status = 200
                 \/ last'.op = "google" /\ last'.msg = MsgRedirectHome]_vars

\* A failed login answered to a client whose session stayed without
\* principal, while the other client is authenticated.
AuthenticatedOnlyBySuccessWitness ==
    /\ last.op = "login" /\ last.status = 401
    /\ ~isAuthenticated(last.agent)
    /\ \E a \in Agents : a # last.agent /\ isAuthenticated(a)

\* C4: logout on an authenticated session answers 200 and leaves the session
\* without principal, so that the status request that follows answers 401;
\* logout on a session that holds no principal answers 401 'Not logged in'
\* and changes neither the tables, the session store nor the cookie.
LogoutContract ==
    [][\A a \in Agents :
          /\ (last'.op = "logout" /\ last'.agent = a /\ isAuthenticated(a)) =>
                (last'.status = 200 /\ ~isAuthenticated(a)')
          /\ (last.op = "logout" /\ last.agent = a /\ last.status = 200
                /\ last'.op = "status" /\ last'.agent = a) =>
                (last'.status = 401 /\ last'.msg = MsgNotAuthenticated)
          /\ (last'.op = "logout" /\ last'.agent = a /\ SessionUser(a) = 0) =>
                /\ last'.status = 401 /\ last'.msg = MsgNotLoggedIn
                /\ UNCHANGED <<users, userSeq, roles, sessions, cookie>>]_vars

\* A status request answered 401 on the session that has just logged out.
LogoutContractWitness ==
    /\ last.op = "status" /\ last.status = 401
    /\ SessionLoaded(last.agent) /\ SessionUser(last.agent) = 0
    /\ users # << >>

\* C5: a successful logout leaves no record under the session id the
\* request came with, and leaves the client without session cookie.
LogoutDiscardsCookie ==
    [][\A a \in Agents :
          (last'.op = "logout" /\ last'.agent = a /\ last'.status = 200) =>
              /\ cookie[a] \notin DOMAIN sessions'
              /\ cookie'[a] = 0]_vars

\* C6: a local login with the email of a user that has no password hash and
\* any password answers 401 'Please log in using your original method' and
\* leaves the session store and the cookie as they were.
ExternalOnlyLoginRefused ==
    [][\A a \in Agents : \A u \in DOMAIN users : \A p \in LoginPasswordIn \ {""} :
          (/\ last'.op = "login" /\ last'.agent = a
           /\ users[u].password = NoPassword
           /\ Login(a, users[u].email, p)) =>
              /\ last'.status = 401
              /\ Includes(last'.msg, "Please log in using your original method")
              /\ UNCHANGED <<sessions, cookie>>
              /\ (~isAuthenticated(a) => ~isAuthenticated(a)')]_vars

\* A local login refused for a user that Google resolution created.
ExternalOnlyLoginRefusedWitness ==
    /\ last.op = "login" /\ last.status = 401 /\ last.msg = MsgOriginalMethod
    /\ \E u \in DOMAIN users : users[u].password = NoPassword /\ users[u].google_id # ""
    /\ ~isAuthenticated(last.agent)

\* C10: a registration whose body lacks email, name, password or role_id, or
\* whose password is shorter than 6 characters, answers 400, inserts no
\* users row and leaves the session without principal.
RegisterValidation ==
    [][\A a \in Agents : \A body \in RejectedBodies :
          (/\ last'.op = "register" /\ last'.agent = a
           /\ BodyRejected(body)
           /\ Register(a, body, {"s1"})) =>
              /\ last'.status = 400
              /\ UNCHANGED <<users, userSeq>>
              /\ (~isAuthenticated(a) => ~isAuthenticated(a)')]_vars

\* A registration refused for its short password, with no user stored.
RegisterValidationWitness ==
    /\ last.op = "register" /\ last.status = 400 /\ last.msg = MsgPasswordShort
    /\ ~isAuthenticated(last.agent)
    /\ Cardinality(DOMAIN users) = 1

\* C7: DELETE /api/players/:id by an authenticated principal answers 200 or
\* removes a players row only if the principal's role name is Admin or
\* Coach; for any other role it answers 403, whatever the id in the path,
\* and leaves the players table as it was.
PlayerDeleteRoleGate ==
    [][\A a \in Agents :
          (last'.op = "DELETE /api/players/:id" /\ last'.agent = a /\ isAuthenticated(a)) =>
              LET allowed == \E u \in ReqUser(a) : u.role_name \in {"Admin", "Coach"} IN
              /\ (last'.status = 200 \/ players' # players) => allowed
              /\ ~allowed => (last'.status = 403 /\ players' = players)]_vars

\* A Player or Guest refused with 403 while the players table holds a row.
PlayerDeleteRoleGateWitness ==
    /\ last.op = "DELETE /api/players/:id" /\ last.status = 403
    /\ \E u \in ReqUser(last.agent) : u.role_name \in {"Player", "Guest"}
    /\ players # << >>

\* The inputs of ensureRole the gate order is checked on.
RequiredRoleSets == SUBSET {"Admin", "Coach", "Player"} \ {{}}
RoleInfos ==
    {RoleInfo(TRUE, names) : names \in SUBSET {"Admin", "Coach", "Player"}}
        \cup {RoleInfo(FALSE, {})}
RolesOf(info) == IF info.isArray THEN info.names ELSE {}
GatedPlayerOps == {"POST /api/players", "PUT /api/players/:id", "DELETE /api/players/:id"}

MutatingOps ==
    {"POST /api/teams", "PUT /api/teams/:id", "DELETE /api/teams/:id",
     "POST /api/players", "PUT /api/players/:id", "DELETE /api/players/:id",
     "POST /api/meets", "PUT /api/meets/:id", "DELETE /api/meets/:id",
     "POST /api/matches", "PUT /api/matches/:id", "DELETE /api/matches/:id",
     "POST /api/matches/:matchId/sets", "PUT /api/sets/:id", "DELETE /api/sets/:id",
     "POST /api/seasons", "PUT /api/seasons/:id", "DELETE /api/seasons/:id",
     "POST /api/roles", "PUT /api/roles/:id", "DELETE /api/roles/:id"}

\* C9: every POST, PUT and DELETE on teams, players, meets, matches, sets,
\* seasons and roles from a client without principal is answered 401 and
\* leaves the tables as they were.
MutationsGated ==
    [][\A a \in Agents :
          (last'.op \in MutatingOps /\ last'.agent = a /\ ~isAuthenticated(a)) =>
              /\ last'.status = 401
              /\ UNCHANGED <<roles, data>>]_vars

\* C11: a registration answered 201 has logged the caller in as the created
\* user: the session of the caller holds that user, and a status request the
\* caller makes next is answered 200 with the id and the email of the 201 body.
RegisterImpliesLogin ==
    /\ [](last.op = "register" /\ last.status = 201 =>
            /\ isAuthenticated(last.agent)
            /\ \E u \in last.body : \E v \in ReqUser(last.agent) :
                 v.id = u.id /\ v.email = u.email)
    /\ [][(/\ last'.op = "status" /\ last'.agent = last.agent
           /\ last.op = "register" /\ last.status = 201) =>
              /\ last'.status = 200
              /\ \E u \in last.body : \E v \in last'.body :
                   v.id = u.id /\ v.email = u.email]_vars

RegisterImpliesLoginWitness ==
    /\ last.op = "status" /\ last.status = 200
    /\ \E r \in regs : \E v \in last.body : v.id = r.id /\ v.email = r.email
    /\ \A u \in DOMAIN users : users[u].google_id = ""

\* The two refusals of the local strategy that carry no hint of the cause.
FailedLoginCases(email, password) ==
    /\ email # "" /\ password # ""
    /\ \/ UserIdsByEmail(email) = {}
       \/ \E u \in UserIdsByEmail(email) :
            /\ users[u].password # NoPassword
            /\ ~bcryptCompare(password, users[u].password)

\* C12: a local login with an email no user has and a local login with the
\* wrong password of a user that has one are answered alike, 401 with the
\* message 'Incorrect email or password.' and no body, and neither gives the
\* caller a session with a principal.
FailedLoginUniform ==
    [][\A a \in Agents, email \in EmailIn, password \in LoginPasswordIn :
          (/\ last'.op = "login" /\ last'.agent = a
           /\ Login(a, email, password)
           /\ FailedLoginCases(email, password)) =>
              /\ last'.status = 401
              /\ last'.msg = <<"Incorrect email or password.">>
              /\ last'.body = {}
              /\ cookie' = cookie
              /\ \A sid \in DOMAIN sessions' :
                   sid \in DOMAIN sessions /\ sessions'[sid] = sessions[sid]]_vars

\* A wrong password was refused while some user has a password; the refusal
\* for an email nobody has is reachable from the first state on.
FailedLoginUniformWitness ==
    /\ last.op = "login" /\ last.status = 401
    /\ last.msg = <<"Incorrect email or password.">>
    /\ \E u \in DOMAIN users : users[u].password # NoPassword
    /\ ~isAuthenticated(last.agent)

\* C13: a Google callback whose Google id no user has and whose email some
\* user has inserts no row, stores the presented id on that user, logs that
\* user in and leaves its password, email and role as they were; and no
\* stored google_id is ever replaced by another one.
GoogleLinkBranch ==
    [][\A a \in Agents, p \in GoogleProfiles :
          (/\ last'.op = "google" /\ last'.agent = a
           /\ GoogleCallback(a, p.id, p.email, p.name)
           /\ p.email # "" /\ UserIdsByGoogleId(p.id) = {}
           /\ UserIdsByEmail(p.email) # {}) =>
              /\ DOMAIN users' = DOMAIN users
              /\ \A u \in UserIdsByEmail(p.email) :
                   /\ users'[u].google_id = p.id
                   /\ users'[u].password = users[u].password
                   /\ users'[u].email = users[u].email
                   /\ users'[u].role_id = users[u].role_id
                   /\ sessions'[cookie'[a]] = u
              /\ \A u \in DOMAIN users :
                   users[u].google_id # "" => users'[u].google_id = users[u].google_id]_vars

GoogleNoEmail ==
    [][\A a \in Agents, p \in GoogleProfiles :
          (/\ last'.op = "google" /\ last'.agent = a
           /\ GoogleCallback(a, p.id, p.email, p.name)
           /\ p.email = "") =>
              /\ UNCHANGED <<users, userSeq, cookie, sessions>>
              /\ last'.status = 500]_vars

\* The refusal happened although a user with the Google id of the profile
\* exists, and the caller holds no principal.
GoogleNoEmailWitness ==
    /\ last.op = "google" /\ last.status = 500
    /\ UserIdsByGoogleId("g1") # {}
    /\ ~isAuthenticated(last.agent)
    /\ userSeq <= MaxUserId

\* A Google callback of client a with profile p takes the create branch.
GoogleCreateCase(a, p) ==
    /\ last'.op = "google" /\ last'.agent = a
    /\ GoogleCallback(a, p.id, p.email, p.name)
    /\ p.email # ""
    /\ \A u \in DOMAIN users : users[u].google_id # p.id /\ users[u].email # p.email

\* Exactly one row was inserted, without password, with the Google id and
\* email of p and the default role, and client a is logged in as that user.
GoogleCreated(a, p) ==
    /\ userSeq \notin DOMAIN users
    /\ DOMAIN users' = DOMAIN users \cup {userSeq}
    /\ \A u \in DOMAIN users : users'[u] = users[u]
    /\ users'[userSeq].password = NoPassword
    /\ users'[userSeq].google_id = p.id
    /\ users'[userSeq].email = p.email
    /\ IF \E r \in DOMAIN roles : roles[r] = "Player"
       THEN roles[users'[userSeq].role_id] = "Player"
       ELSE users'[userSeq].role_id = 3
    /\ last'.status = 302
    /\ sessions'[cookie'[a]] = userSeq

GoogleSignUpProfiles == GoogleProfiles \cup {GoogleProfile("g1", "b@x.com", "G")}

\* C14 as stated: every Google callback whose Google id and email no user has
\* inserts exactly one row (no password, the presented Google id, the role
\* named 'Player' or else role 3) and logs that user in.
GoogleCreateBranch ==
    [][\A a \in Agents, p \in GoogleSignUpProfiles :
          GoogleCreateCase(a, p) => GoogleCreated(a, p)]_vars

\* C14: a Google callback whose Google id and email no user has inserts
\* exactly one row (no password, the presented Google id, the role named
\* 'Player' or else role 3) and logs that user in, provided the profile has a
\* display name and that default role id is the id of a role; otherwise it is
\* answered with an error, no row is inserted and no session gets a principal.
GoogleCreateBranchValid ==
    [][\A a \in Agents, p \in GoogleSignUpProfiles :
          GoogleCreateCase(a, p) =>
              IF /\ p.name # ""
                 /\ \/ \E r \in DOMAIN roles : roles[r] = "Player"
                    \/ 3 \in DOMAIN roles
              THEN GoogleCreated(a, p)
              ELSE /\ UNCHANGED <<users, cookie>>
                   /\ last'.status = 500
                   /\ \A sid \in DOMAIN sessions' :
                        sid \in DOMAIN sessions /\ sessions'[sid] \in {sessions[sid], 0}]_vars

\* A Google sign-up got role 3 although that role is not named 'Player'.
GoogleCreateBranchValidWitness ==
    /\ last.op = "google" /\ last.status = 302
    /\ 3 \in DOMAIN roles /\ roles[3] # "Player"
    /\ \E u \in DOMAIN users :
         /\ users[u].google_id = "g1" /\ users[u].password = NoPassword
         /\ users[u].role_id = 3 /\ users[u].name = "G"
         /\ SessionUser(last.agent) = u

\* C17: every row of users has a password hash or a Google id.
UserHasCredential ==
    \A u \in DOMAIN users : users[u].password # NoPassword \/ users[u].google_id # ""

\* C18: the principal of a request is read from users and roles as they are
\* when the request arrives: a status request of a session answers with the
\* current row of its user and the current name of its role, the role check of
\* the player delete route refuses exactly the current roles other than Admin
\* and Coach, and a status request right after an update of the user of its
\* session answers with the updated email, name and role.
PrincipalRebuilt ==
    /\ [][\A a \in Agents :
            LET u == SessionUser(a) IN
            (last'.agent = a /\ u \in DOMAIN users /\ users[u].role_id \in DOMAIN roles) =>
              /\ last'.op = "status" =>
                   /\ last'.status = 200
                   /\ last'.body = {[id |-> u, email |-> users[u].email,
                                     name |-> users[u].name, role_id |-> users[u].role_id,
                                     google_id |-> users[u].google_id,
                                     role_name |-> roles[users[u].role_id],
                                     password |-> NoPassword]}
              /\ last'.op = "DELETE /api/players/:id" =>
                   (last'.status = 403 <=>
                        roles[users[u].role_id] \notin {"Admin", "Coach"})]_vars
    /\ [][(/\ last.op = "PUT /api/users/:id" /\ last.status = 200
           /\ last'.op = "status"
           /\ \E v \in last.body : SessionUser(last'.agent) = v.id) =>
              \E v \in last.body : \E w \in last'.body :
                 /\ w.id = v.id /\ w.email = v.email
                 /\ w.name = v.name /\ w.role_id = v.role_id]_vars

\* A status answer carries an email and a role other than the ones its user
\* registered with.
PrincipalRebuiltWitness ==
    /\ last.op = "status" /\ last.status = 200
    /\ \E r \in regs : \E v \in last.body :
         /\ v.id = r.id /\ v.email # r.email
         /\ v.role_id = 3 /\ v.role_name = "Umpire"

\* C19: no response body carries a password hash: whatever user object a
\* response of register, login, status or a user route holds has no password.
NoHashInBody ==
    \A x \in last.body : "password" \in DOMAIN x => x.password = NoPassword

\* A login answered with the object of a user whose row holds a hash.
NoHashInBodyWitness ==
    /\ last.op = "login" /\ last.status = 200
    /\ \E x \in last.body :
         /\ x.id \in DOMAIN users
         /\ users[x.id].password # NoPassword
         /\ x.email = users[x.id].email

\* C20: the role_id of every user is the id of a row of roles, and a delete of
\* a role that some user holds is refused (409 for a caller that is logged in,
\* 401 at the gate for one that is not) and leaves roles and users as they were.
RolesNeverDangling ==
    /\ [](\A u \in DOMAIN users : users[u].role_id \in DOMAIN roles)
    /\ [][\A a \in Agents, path \in PathIds :
            (/\ last'.op = "DELETE /api/roles/:id" /\ last'.agent = a
             /\ DeleteRole(a, path)
             /\ \E u \in DOMAIN users : users[u].role_id = parseInt(path)) =>
                /\ last'.status = IF isAuthenticated(a) THEN 409 ELSE 401
                /\ UNCHANGED <<roles, users>>]_vars

\* The delete of a role was refused with 409 while another role is gone.
RolesNeverDanglingWitness ==
    /\ last.op = "DELETE /api/roles/:id" /\ last.status = 409
    /\ Includes(last.msg, "referenced by users")
    /\ \E u \in DOMAIN users : users[u].role_id = 2
    /\ 2 \in DOMAIN roles /\ 3 \notin DOMAIN roles

\* C21: a request during which the user lookup of the local login throws, or
\* the lookup that loads the principal of the session throws, is answered 500
\* whatever the outcome of the query would have been, and leaves every session
\* and cookie as it was.
DbFailureSurfaced ==
    [][\A a \in Agents :
          (/\ last'.agent = a
           /\ \/ \E password \in LoginPasswordIn : LoginDbError(a, "a@x.com", password)
              \/ \E op \in {"status", "login", "logout"} : DeserializeDbError(a, op)) =>
              /\ last'.status = 500
              /\ last'.body = {}
              /\ UNCHANGED <<sessions, cookie, users>>]_vars

\* The login of a client without principal ended in 500 while a user with
\* that email and a password exists and the other client is logged in.
DbFailureSurfacedWitness ==
    /\ last.op = "login" /\ last.status = 500
    /\ ~isAuthenticated(last.agent)
    /\ \E u \in DOMAIN users : users[u].email = "a@x.com" /\ users[u].password # NoPassword
    /\ \E a \in Agents : isAuthenticated(a)

SetBelongsToUrlMatch ==
    [][\A a \in Agents, path \in PathIds, body \in NestedSetBodies :
          (/\ last'.op = "POST /api/matches/:matchId/sets" /\ last'.agent = a
           /\ CreateSet(a, path, body)) =>
              /\ (parseInt(path) # NaN /\ parseInt(path) \notin DOMAIN matches) =>
                    (last'.status = 404 /\ UNCHANGED sets)
              /\ last'.status = 201 =>
                    /\ \E id \in DOMAIN sets' \ DOMAIN sets :
                         /\ DOMAIN sets' = DOMAIN sets \cup {id}
                         /\ sets'[id].match_id = parseInt(path)
                    /\ \A r \in last'.body : r.match_id = parseInt(path)
              /\ last'.status # 201 => UNCHANGED sets]_vars

\* A set of match 1 came from the body that names match 2, which exists.
SetBelongsToUrlMatchWitness ==
    /\ last.op = "POST /api/matches/:matchId/sets" /\ last.status = 201
    /\ 2 \in DOMAIN matches
    /\ \E x \in DOMAIN sets : sets[x].match_id = 1 /\ sets[x].set_number = 2
    /\ \A r \in last.body : r.match_id = 1 /\ r.set_number = 2

\* C24: a PUT /api/users/:id whose body has a password is refused and
\* changes no column of any user, and no PUT /api/users/:id changes the
\* password hash of any user.
UpdateKeepsPassword ==
    [][\A a \in Agents, path \in UserPaths, body \in UserUpdates :
          (/\ last'.op = "PUT /api/users/:id" /\ last'.agent = a
           /\ UpdateUser(a, path, body)) =>
              /\ body.password # Absent =>
                    (last'.status \in {400, 401, 500} /\ UNCHANGED users)
              /\ DOMAIN users' = DOMAIN users
              /\ \A u \in DOMAIN users : users'[u].password = users[u].password]_vars

\* An update with a password was refused with the 500 of updateUser's throw
\* (both roles the bodies name exist, so no foreign key failed).
UpdateKeepsPasswordWitness ==
    /\ last.op = "PUT /api/users/:id" /\ last.status = 500
    /\ {2, 3} \subseteq DOMAIN roles
    /\ isAuthenticated(last.agent)
    /\ \E u \in DOMAIN users : users[u].password = bcryptHash("secret1", "s1")

\* The routes of NextUsers behind ensureAuthenticated.
GatedUserOps ==
    {"PUT /api/users/:id", "DELETE /api/users/:id", "PUT /api/roles/:id",
     "DELETE /api/roles/:id", "DELETE /api/players/:id"}

\* C25: a request on a session whose user row is gone runs without principal:
\* status and every gated route answer 401 (not 500), the request writes
\* nothing but the session and leaves that session without user id.
DeletedUserAnonymous ==
    [][\A a \in Agents :
          (/\ last'.agent = a
           /\ SessionUser(a) # 0 /\ SessionUser(a) \notin DOMAIN users
           /\ last'.op \in GatedUserOps \cup {"status"}) =>
              /\ last'.status = 401
              /\ last'.body = {}
              /\ UNCHANGED <<users, roles, players>>
              /\ cookie' = cookie
              /\ sessions'[cookie[a]] = 0]_vars

\* A status request was answered 401 on a session that has lost its user.
DeletedUserAnonymousWitness ==
    /\ last.op = "status" /\ last.status = 401
    /\ SessionLoaded(last.agent) /\ SessionUser(last.agent) = 0
    /\ userSeq > 1

\* C26: when every request comes from the session of a user that registered
\* as Player, no DELETE /api/players/:id is answered 200 and no request
\* makes a Player an Admin or a Coach.
NoEscalation ==
    /\ [](last.op = "DELETE /api/players/:id" => last.status # 200)
    /\ [][\A u \in DOMAIN users :
            (u \in DOMAIN users' /\ roles[users[u].role_id] = "Player") =>
                roles[users'[u].role_id] \notin {"Admin", "Coach"}]_vars

\* C27: a login answered 401 on a session that has a principal leaves the
\* cookie and the session as they were, and a status request on a session
\* with a principal is answered 200 with the id of that principal: the status
\* request after the failed login reports the user of before.
FailedLoginKeepsLogin ==
    /\ [][\A a \in Agents :
            (/\ last'.op = "login" /\ last'.agent = a /\ last'.status = 401
             /\ isAuthenticated(a)) =>
                /\ cookie'[a] = cookie[a]
                /\ sessions'[cookie[a]] = sessions[cookie[a]]
                /\ UNCHANGED users]_vars
    /\ [][\A a \in Agents :
            (last'.op = "status" /\ last'.agent = a /\ isAuthenticated(a)) =>
                /\ last'.status = 200
                /\ \E v \in last'.body : v.id = SessionUser(a)]_vars

\* A login was refused on a session that is logged in.
FailedLoginKeepsLoginWitness ==
    /\ last.op = "login" /\ last.status = 401
    /\ isAuthenticated(last.agent)
    /\ Includes(last.msg, "Incorrect email or password.")

\* C28: when two clients are logged in as one user, a logout or a refused
\* login of one leaves the session of the other as it was, logged in as
\* that user.
SessionsIndependent ==
    [][\A a \in Agents, b \in Agents :
          (/\ a # b /\ last'.agent = a
           /\ isAuthenticated(a) /\ isAuthenticated(b)
           /\ SessionUser(a) = SessionUser(b)
           /\ \/ last'.op = "logout"
              \/ (last'.op = "login" /\ last'.status = 401)) =>
              /\ cookie'[b] = cookie[b]
              /\ cookie[b] \in DOMAIN sessions'
              /\ sessions'[cookie[b]] = sessions[cookie[b]]
              /\ UNCHANGED users]_vars

\* One client has logged out while the other is logged in as the only user.
SessionsIndependentWitness ==
    /\ last.op = "logout" /\ last.status = 200
    /\ Cardinality(DOMAIN users) = 1 /\ userSeq = 2
    /\ \E b \in Agents : b # last.agent /\ isAuthenticated(b)

\* C29: no meet has the same team on both sides, and a POST or PUT of meets
\* that would store one is answered 400 and leaves the meets as they were.
MeetTeamsDiffer ==
    /\ [](\A m \in DOMAIN meets : meets[m].team1_id # meets[m].team2_id)
    /\ [][\A a \in Agents, body \in MeetBodies :
            (/\ last'.op = "POST /api/meets" /\ last'.agent = a
             /\ CreateMeet(a, body)
             /\ body.team1_id = body.team2_id /\ body.team1_id # 0) =>
                (last'.status = 400 /\ UNCHANGED meets)]_vars
    /\ [][\A a \in Agents, path \in PathIds, body \in MeetUpdates :
            (/\ last'.op = "PUT /api/meets/:id" /\ last'.agent = a
             /\ UpdateMeet(a, path, body)
             /\ parseInt(path) \in DOMAIN meets
             /\ UpdatedMeet(meets[parseInt(path)], body).team1_id
                    = UpdatedMeet(meets[parseInt(path)], body).team2_id) =>
                (last'.status = 400 /\ UNCHANGED meets)]_vars

\* C30: of two DELETE requests for one set, whatever the order of their
\* statements, at most one is answered 200, and a DELETE of a set that does
\* not exist is answered 404 and leaves the sets as they were.
DeleteReportedOnce ==
    /\ [](\A a \in Agents, b \in Agents :
            (/\ a # b
             /\ inflight[a].pc = "done" /\ inflight[b].pc = "done"
             /\ inflight[a].id = inflight[b].id) =>
                ~(inflight[a].status = 200 /\ inflight[b].status = 200))
    /\ [][\A a \in Agents, path \in PathIds :
            (/\ DeleteSetSelect(a, path)
             /\ parseInt(path) # NaN /\ parseInt(path) \notin DOMAIN sets) =>
                /\ last'.agent = a /\ last'.status = 404
                /\ UNCHANGED sets]_vars

====
